---- MODULE Spec2Model ----
(***************************************************************************)
(* Model of the centralized SSO gateway (auth server) and of the          *)
(* downstream session-verifying middleware of the Keys backend.           *)
(*                                                                         *)
(* JavaScript strings are sequences of one-character strings, and every   *)
(* JavaScript value is a tagged record [t, s] so that values of different *)
(* types can be compared.                                                  *)
(***************************************************************************)
EXTENDS Integers, Sequences, FiniteSets, TLC

VARIABLES PUBLIC_APPS, now, ticks, issued, req, res, access, pending,
          store, invocations

vars == <<PUBLIC_APPS, now, ticks, issued, req, res, access, pending,
          store, invocations>>

(***************************************************************************)
(* Bounds of the model.                                                    *)
(***************************************************************************)
MaxTicks == 2
MaxIssued == 1
MaxPending == 2

(***************************************************************************)
(* JavaScript values.                                                      *)
(***************************************************************************)
Undefined == [t |-> "undefined", s |-> <<>>]
Str(chars) == [t |-> "string", s |-> chars]
Num(chars) == [t |-> "number", s |-> chars]

IsString(v) == v.t = "string"

\* JavaScript truthiness of the values the model uses.
Truthy(v) ==
    CASE v.t = "undefined" -> FALSE
      [] v.t = "string" -> v.s # <<>>
      [] v.t = "number" -> v.s # <<"0">>
      [] OTHER -> TRUE

\* a || b
Or(a, b) == IF Truthy(a) THEN a ELSE b

UpperChars == <<"A","B","C","D","E","F","G","H","I","J","K","L","M",
                "N","O","P","Q","R","S","T","U","V","W","X","Y","Z">>
LowerChars == <<"a","b","c","d","e","f","g","h","i","j","k","l","m",
                "n","o","p","q","r","s","t","u","v","w","x","y","z">>

toLowerChar(c) ==
    IF \E k \in 1..26 : UpperChars[k] = c
    THEN LowerChars[CHOOSE k \in 1..26 : UpperChars[k] = c]
    ELSE c

\* String.prototype.toLowerCase
toLowerCase(chars) == [i \in 1..Len(chars) |-> toLowerChar(chars[i])]

\* String.prototype.endsWith
endsWith(chars, suffix) ==
    /\ Len(chars) >= Len(suffix)
    /\ SubSeq(chars, Len(chars) - Len(suffix) + 1, Len(chars)) = suffix

\* String.prototype.startsWith
startsWith(chars, prefix) ==
    /\ Len(chars) >= Len(prefix)
    /\ SubSeq(chars, 1, Len(prefix)) = prefix

\* String.prototype.split(sep) for a one-character separator
RECURSIVE split(_, _)
split(chars, sep) ==
    IF \E i \in 1..Len(chars) : chars[i] = sep
    THEN LET i == CHOOSE j \in 1..Len(chars) :
                     /\ chars[j] = sep
                     /\ \A k \in 1..(j - 1) : chars[k] # sep
         IN  <<SubSeq(chars, 1, i - 1)>> \o split(SubSeq(chars, i + 1, Len(chars)), sep)
    ELSE <<chars>>

\* String.prototype.trim
RECURSIVE trim(_)
trim(chars) ==
    IF chars # <<>> /\ Head(chars) = " " THEN trim(Tail(chars))
    ELSE IF chars # <<>> /\ chars[Len(chars)] = " "
         THEN trim(SubSeq(chars, 1, Len(chars) - 1))
         ELSE chars

\* Array.prototype.join(sep)
RECURSIVE join(_, _)
join(parts, sep) ==
    IF Len(parts) = 0 THEN <<>>
    ELSE IF Len(parts) = 1 THEN parts[1]
    ELSE parts[1] \o <<sep>> \o join(Tail(parts), sep)

(***************************************************************************)
(* Literals of the program.                                                *)
(***************************************************************************)
TrustedSuffix == <<"@","v","n","r","v","j","i","e","t",".","i","n">>
TrustedSuffixUpper == <<"@","V","N","R","V","J","I","E","T",".","I","N">>
TrustedSuffixMixed == <<"@","V","n","r","v","j","i","e","t",".","I","n">>
RootDomain == <<"v","j","s","t","a","r","t","u","p",".","c","o","m">>
CookieDomain == <<".">> \o RootDomain
\* 'Only @vnrvjiet.in email addresses are allowed for this application'
DenyReason == <<"O","n","l","y"," ">> \o TrustedSuffix \o
              <<" ","e","m","a","i","l"," ","a","d","d","r","e","s","s","e","s",
                " ","a","r","e"," ","a","l","l","o","w","e","d">>

wall == <<"w","a","l","l">>
events == <<"e","v","e","n","t","s">>
passport == <<"p","a","s","s","p","o","r","t">>
faculty == <<"f","a","c","u","l","t","y">>
keys == <<"k","e","y","s">>
gmail == <<"@","g","m","a","i","l",".","c","o","m">>

\* process.env.PUBLIC_APPS as written in the .env file of the auth server
EnvPublicApps == Str(wall \o <<","," ">> \o events \o <<","," ">> \o passport)
EnvValues == {Undefined, EnvPublicApps}

\* PUBLIC_APPS = env ? env.split(',').map(app => app.trim()) : []
LoadPublicApps(env) ==
    IF Truthy(env)
    THEN LET parts == split(env.s, ",")
         IN  [i \in 1..Len(parts) |-> trim(parts[i])]
    ELSE <<>>

(***************************************************************************)
(* Access policy.                                                          *)
(***************************************************************************)
\* PUBLIC_APPS.includes(app): strict equality against each list element
isPublicAppName(app) ==
    /\ IsString(app)
    /\ \E i \in 1..Len(PUBLIC_APPS) : PUBLIC_APPS[i] = app.s

isInternalEmailCaseSensitive(email) ==
    IsString(email) /\ endsWith(email.s, TrustedSuffix)

isInternalEmail(email) ==
    IsString(email) /\ endsWith(toLowerCase(email.s), TrustedSuffix)

checkAccessInternalOnly(email, app) ==
    LET internal == isInternalEmail(email)
    IN  [publicApp |-> isPublicAppName(app),
         internal  |-> internal,
         allowed   |-> internal,
         reason    |-> Str(DenyReason)]

checkAccessNoReason(email, app) ==
    LET publicApp == isPublicAppName(app)
        internal == isInternalEmail(email)
    IN  [publicApp |-> publicApp,
         internal  |-> internal,
         allowed   |-> publicApp \/ internal,
         reason    |-> IF publicApp \/ ~internal THEN Undefined ELSE Str(DenyReason)]

checkAccessUnguarded(email, app) ==
    LET publicApp == isPublicAppName(app)
        internal == endsWith(toLowerCase(email.s), TrustedSuffix)
    IN  IF ~IsString(email)
        THEN [thrown |-> "TypeError"]
        ELSE [publicApp |-> publicApp,
              internal  |-> internal,
              allowed   |-> publicApp \/ internal,
              reason    |-> IF publicApp THEN Undefined ELSE Str(DenyReason)]

checkAccess(email, app) ==
    LET publicApp == isPublicAppName(app)
        internal == isInternalEmail(email)
    IN  [publicApp |-> publicApp,
         internal  |-> internal,
         allowed   |-> publicApp \/ internal,
         reason    |-> IF publicApp THEN Undefined ELSE Str(DenyReason)]

NoAccess == [called |-> FALSE, email |-> Undefined, app |-> Undefined,
             result |-> [publicApp |-> FALSE, internal |-> FALSE,
                         allowed |-> FALSE, reason |-> Undefined]]

AccessOf(email, app) ==
    [called |-> TRUE, email |-> email, app |-> app, result |-> checkAccess(email, app)]

(***************************************************************************)
(* App resolver.                                                           *)
(***************************************************************************)
HttpsScheme == <<"h","t","t","p","s",":","/","/">>
HttpScheme == <<"h","t","t","p",":","/","/">>

\* index of the first character of chars[from..] that is in stops, or Len + 1
RECURSIVE IndexFrom(_, _, _)
IndexFrom(chars, stops, from) ==
    IF from > Len(chars) THEN from
    ELSE IF chars[from] \in stops THEN from
    ELSE IndexFrom(chars, stops, from + 1)

\* index of the first character of chars[from..] that is not a slash, or Len + 1
RECURSIVE SkipSlashes(_, _)
SkipSlashes(chars, from) ==
    IF from <= Len(chars) /\ chars[from] \in {"/", "\\"}
    THEN SkipSlashes(chars, from + 1)
    ELSE from

Letters == {UpperChars[k] : k \in 1..26} \cup {LowerChars[k] : k \in 1..26}
Digits == {"0", "1", "2", "3", "4", "5", "6", "7", "8", "9"}
SchemeChars == Letters \cup Digits \cup {"+", "-", "."}
SpecialSchemes ==
    { <<"h","t","t","p">>, <<"h","t","t","p","s">>, <<"f","t","p">>,
      <<"w","s">>, <<"w","s","s">> }
ForbiddenHostChars == {" ", "<", ">", "[", "]", "^", "|", "%"}

\* the URL parser's verdict on a host and a port: the host of a special
\* scheme is not empty and is lower-cased, no forbidden character, a port of
\* digits
HostAndPort(host, port, special) ==
    IF \/ (special /\ host = <<>>)
       \/ \E i \in 1..Len(host) : host[i] \in ForbiddenHostChars
       \/ \E i \in 1..Len(port) : port[i] \notin Digits
    THEN [ok |-> FALSE, hostname |-> <<>>]
    ELSE [ok |-> TRUE, hostname |-> IF special THEN toLowerCase(host) ELSE host]

\* host:port split at the first colon
SplitPort(hostport, portAt, special) ==
    HostAndPort(SubSeq(hostport, 1, portAt - 1),
                SubSeq(hostport, portAt + 1, Len(hostport)), special)

HostPort(hostport, special) ==
    SplitPort(hostport, IndexFrom(hostport, {":"}, 1), special)

\* the authority without its userinfo: what follows the last '@'
AfterUserinfo(authority) ==
    IF \E i \in 1..Len(authority) : authority[i] = "@"
    THEN SubSeq(authority,
                (CHOOSE i \in 1..Len(authority) :
                    /\ authority[i] = "@"
                    /\ \A k \in (i + 1)..Len(authority) : authority[k] # "@") + 1,
                Len(authority))
    ELSE authority

\* the authority starts at `start` and ends before the first of `stops`
Authority(s, start, stops, special) ==
    HostPort(AfterUserinfo(SubSeq(s, start, IndexFrom(s, stops, start) - 1)), special)

\* s[1..colon-1] is a scheme followed by a colon
ValidScheme(s, colon) ==
    /\ 1 < colon
    /\ colon <= Len(s)
    /\ s[1] \in Letters
    /\ \A i \in 1..(colon - 1) : s[i] \in SchemeChars

AfterScheme(s, colon) ==
    IF ~ValidScheme(s, colon)
    THEN [ok |-> FALSE, hostname |-> <<>>]
    ELSE IF toLowerCase(SubSeq(s, 1, colon - 1)) \in SpecialSchemes
    THEN Authority(s, SkipSlashes(s, colon + 1), {"/", "\\", "?", "#"}, TRUE)
    ELSE IF colon + 2 <= Len(s) /\ s[colon + 1] = "/" /\ s[colon + 2] = "/"
    THEN Authority(s, colon + 3, {"/", "?", "#"}, FALSE)
    ELSE [ok |-> TRUE, hostname |-> <<>>]

TrimmedUrl(s) == AfterScheme(s, IndexFrom(s, {":"}, 1))

\* new URL(s).hostname without a base URL; [ok |-> FALSE] when the constructor
\* throws.  Covered: surrounding spaces, the scheme, the slashes a special
\* scheme tolerates, userinfo, port, lower-casing of the host of a special
\* scheme, the empty hostname of a URL without authority.  Not covered:
\* percent-encoding, IDNA, IPv4 and IPv6 literals, the file scheme.
ParseUrl(chars) == TrimmedUrl(trim(chars))

parseAppFromUrlAnyDomain(maybeUrl) ==
    IF ~Truthy(maybeUrl) THEN Undefined
    ELSE LET u == ParseUrl(maybeUrl.s)
             parts == split(u.hostname, ".")
         IN  IF u.ok /\ Len(parts) >= 3 THEN Str(parts[1]) ELSE Undefined

\* parts.length >= 3 && parts.slice(-2).join('.') === 'vjstartup.com' ? parts[0]
\* : undefined
FirstLabel(parts) ==
    IF /\ Len(parts) >= 3
       /\ join(SubSeq(parts, Len(parts) - 1, Len(parts)), ".") = RootDomain
    THEN Str(parts[1])
    ELSE Undefined

\* the try block of parseAppFromUrl, u being the outcome of new URL(maybeUrl)
AppOfHostname(u) ==
    IF u.ok THEN FirstLabel(split(u.hostname, ".")) ELSE Undefined

parseAppFromUrl(maybeUrl) ==
    IF ~Truthy(maybeUrl) THEN Undefined ELSE AppOfHostname(ParseUrl(maybeUrl.s))

getAppFromRequestRefererFirst(r) ==
    LET direct == Or(Or(r.bodyApp, r.queryApp), r.xAppName)
    IN  IF Truthy(direct) THEN direct
        ELSE Or(parseAppFromUrl(r.referer), parseAppFromUrl(r.origin))

getAppFromRequest(r) ==
    LET direct == Or(Or(r.bodyApp, r.queryApp), r.xAppName)
    IN  IF Truthy(direct) THEN direct
        ELSE Or(parseAppFromUrl(r.origin), parseAppFromUrl(r.referer))

(***************************************************************************)
(* Session credentials (jsonwebtoken).                                     *)
(***************************************************************************)
ThirtyDays == 30 * 24 * 60 * 60          \* expiresIn: "30d", in seconds
\* cookie maxAge = 30 * 24 * 60 * 60 * 1000 ms, as the Max-Age attribute in seconds
MaxAge == 30 * 24 * 60 * 60

JWT_SECRET == "your_secret_key"
ForeignSecret == "not_the_server_secret"

\* property read: an absent property reads as undefined
Get(obj, field) == IF field \in DOMAIN obj THEN obj[field] ELSE Undefined

\* JSON.stringify drops the properties whose value is undefined
JsonObject(obj) ==
    LET kept == {f \in DOMAIN obj : obj[f] # Undefined}
    IN  [f \in kept |-> obj[f]]

Merge(a, b) ==
    [f \in DOMAIN a \cup DOMAIN b |-> IF f \in DOMAIN b THEN b[f] ELSE a[f]]

jwt_signEmailOnly(payload, secret, at) ==
    [t |-> "jwt",
     payload |-> Merge(JsonObject([email |-> payload.email]),
                       [iat |-> at, exp |-> at + ThirtyDays]),
     key |-> secret]

jwt_signNoExpiry(payload, secret, at) ==
    [t |-> "jwt",
     payload |-> Merge(JsonObject(payload), [iat |-> at]),
     key |-> secret]

\* jwt.sign(payload, secret, {expiresIn: "30d"}) at clock time `at`
jwt_sign(payload, secret, at) ==
    [t |-> "jwt",
     payload |-> Merge(JsonObject(payload), [iat |-> at, exp |-> at + ThirtyDays]),
     key |-> secret]

jwt_verifyOffByOne(token, secret, at) ==
    IF /\ token.t = "jwt"
       /\ token.key = secret
       /\ ("exp" \in DOMAIN token.payload => at <= token.payload.exp)
    THEN [ok |-> TRUE, decoded |-> token.payload]
    ELSE [ok |-> FALSE, decoded |-> <<>>]

jwt_verifyIgnoreExpiry(token, secret, at) ==
    IF token.t = "jwt" /\ token.key = secret
    THEN [ok |-> TRUE, decoded |-> token.payload]
    ELSE [ok |-> FALSE, decoded |-> <<>>]

jwt_verifySameInstant(token, secret, at) ==
    IF /\ token.t = "jwt"
       /\ token.key = secret
       /\ ("iat" \in DOMAIN token.payload => at <= token.payload.iat)
    THEN [ok |-> TRUE, decoded |-> token.payload]
    ELSE [ok |-> FALSE, decoded |-> <<>>]

\* jwt.verify(token, secret) at clock time `at`: throws (ok = FALSE) on a
\* value that is not a JWT, on a signature made with another key, and when
\* at >= exp
jwt_verify(token, secret, at) ==
    IF /\ token.t = "jwt"
       /\ token.key = secret
       /\ ("exp" \in DOMAIN token.payload => at < token.payload.exp)
    THEN [ok |-> TRUE, decoded |-> token.payload]
    ELSE [ok |-> FALSE, decoded |-> <<>>]

(***************************************************************************)
(* Cookies.                                                                *)
(***************************************************************************)
localhost == <<"l","o","c","a","l","h","o","s","t">>
authHost == <<"a","u","t","h",".">> \o RootDomain

\* req.hostname of Express: the Host header without its port, where the port
\* is looked for after the closing bracket of an IPv6 literal; undefined when
\* the request has no Host header
req_hostname(host) ==
    IF ~Truthy(host) THEN Undefined
    ELSE LET close == IF host.s[1] = "[" THEN IndexFrom(host.s, {"]"}, 1) ELSE 0
             offset == IF close > Len(host.s) THEN 0 ELSE close
             colon == IndexFrom(host.s, {":"}, offset + 1)
         IN  Str(SubSeq(host.s, 1, colon - 1))

\* getCookieSettings(req): req.hostname is undefined when the request has no
\* Host header, and then req.hostname.startsWith throws a TypeError
getCookieSettings(r) ==
    IF ~IsString(r.hostname) THEN [ok |-> FALSE]
    ELSE LET isLocalhost == \/ r.hostname.s = localhost
                            \/ startsWith(r.hostname.s, <<"1","2","7",".">>)
                            \/ r.hostname.s = <<":",":","1">>
         IN  [ok |-> TRUE,
              isLocalhost |-> isLocalhost,
              base |-> [domain |-> IF isLocalhost THEN Undefined ELSE Str(CookieDomain),
                        path |-> Str(<<"/">>),
                        sameSite |-> "Lax",
                        secure |-> ~isLocalhost]]

Cookie(name, value, base, httpOnly, maxAge, expires) ==
    [name |-> name, value |-> value, domain |-> base.domain, path |-> base.path,
     sameSite |-> base.sameSite, secure |-> base.secure, httpOnly |-> httpOnly,
     maxAge |-> maxAge, expires |-> expires]

setAuthCookiesSessionUser(r, userToken, user) ==
    LET base == getCookieSettings(r).base
    IN  <<Cookie("userToken", userToken, base, TRUE, MaxAge, -1),
          Cookie("user", [t |-> "json", v |-> JsonObject(user)], base, FALSE, -1, -1)>>

\* setAuthCookies(res, req, userToken, user): the cookies written, in order
setAuthCookies(r, userToken, user) ==
    LET base == getCookieSettings(r).base
    IN  <<Cookie("userToken", userToken, base, TRUE, MaxAge, -1),
          Cookie("user", [t |-> "json", v |-> JsonObject(user)], base, FALSE, MaxAge, -1)>>

\* clearAuthCookies(res, req)
clearAuthCookies(r) ==
    LET base == getCookieSettings(r).base
    IN  <<Cookie("userToken", Str(<<>>), base, TRUE, -1, 0),
          Cookie("user", Str(<<>>), base, FALSE, -1, 0)>>

(***************************************************************************)
(* Requests and responses.                                                 *)
(***************************************************************************)
NoBody == [f \in {} |-> Undefined]

\* a request, and the environment of the process that handles it: the
\* outcome of a directory lookup (db), of an outbound call (net), the
\* configuration (ssoServerUrl, appName), and whether the module loader
\* exposes the members of the CommonJS module 'jsonwebtoken' as named exports
\* of its namespace object; the fields a handler does not read keep their
\* default
Request(handler) ==
    [handler |-> handler, bodyToken |-> Undefined,
     userToken |-> Undefined, token |-> Undefined, authorization |-> Undefined,
     bodyApp |-> Undefined, queryApp |-> Undefined, xAppName |-> Undefined,
     origin |-> Undefined, referer |-> Undefined, hostname |-> Undefined,
     db |-> "none", net |-> "none", ssoServerUrl |-> FALSE, appName |-> Undefined,
     namedExports |-> TRUE]

\* a response: status and JSON body, the Set-Cookie writes in order, whether
\* a middleware called next(), whether an exception escaped the handler, the
\* properties a middleware set on req, and the calls the handler reached
Response(handler, status, body, cookies, calls) ==
    [handler |-> handler, status |-> status, body |-> body, cookies |-> cookies,
     next |-> FALSE, thrown |-> FALSE, attrs |-> NoBody, calls |-> calls]

NoRequest == Request("none")
NoResponse == Response("none", 0, NoBody, <<>>, <<>>)

Outcome(response, acc, signed) ==
    [res |-> response, access |-> acc, signed |-> signed]

(***************************************************************************)
(* Auth server handlers.                                                   *)
(***************************************************************************)
\* client.verifyIdToken: resolves for a well-formed token that Google signed
\* for this audience and that is unexpired, throws otherwise
verifyIdToken(token) == token.t = "idtoken" /\ token.valid

ClaimOf(payload) ==
    [email |-> Get(payload, "email"), name |-> Get(payload, "name"),
     picture |-> Get(payload, "picture"), family_name |-> Get(payload, "family_name")]

AuthGoogleNoGate(r, at) ==
    LET app == getAppFromRequest(r)
        claim == ClaimOf(r.bodyToken.payload)
        acc == AccessOf(claim.email, app)
        userToken == jwt_sign(claim, JWT_SECRET, at)
    IN  IF ~verifyIdToken(r.bodyToken)
        THEN Outcome(Response("auth/google", 401, [error |-> "Invalid Token"], <<>>,
                              <<"verifyIdToken">>), NoAccess, {})
        ELSE IF ~getCookieSettings(r).ok
        THEN Outcome(Response("auth/google", 401, [error |-> "Invalid Token"], <<>>,
                              <<"verifyIdToken", "checkAccess", "jwt.sign", "setAuthCookies">>),
                     acc, {})
        ELSE Outcome(Response("auth/google", 200,
                              [token |-> userToken, user |-> JsonObject(claim)],
                              setAuthCookies(r, userToken, claim),
                              <<"verifyIdToken", "checkAccess", "jwt.sign", "setAuthCookies">>),
                     acc, {userToken})

AuthGoogleOneSession(r, at) ==
    LET app == getAppFromRequest(r)
        claim == ClaimOf(r.bodyToken.payload)
        acc == AccessOf(claim.email, app)
        userToken == jwt_sign(claim, JWT_SECRET, at)
    IN  IF ~verifyIdToken(r.bodyToken)
        THEN Outcome(Response("auth/google", 401, [error |-> "Invalid Token"], <<>>,
                              <<"verifyIdToken">>), NoAccess, {})
        ELSE IF ~acc.result.allowed \/ issued # {}
        THEN Outcome(Response("auth/google", 403,
                              [error |-> "Access Denied (Only VNRVJIET allowed)",
                               message |-> acc.result.reason], <<>>,
                              <<"verifyIdToken", "checkAccess">>), acc, {})
        ELSE IF ~getCookieSettings(r).ok
        THEN Outcome(Response("auth/google", 401, [error |-> "Invalid Token"], <<>>,
                              <<"verifyIdToken", "checkAccess", "jwt.sign", "setAuthCookies">>),
                     acc, {})
        ELSE Outcome(Response("auth/google", 200,
                              [token |-> userToken, user |-> JsonObject(claim)],
                              setAuthCookies(r, userToken, claim),
                              <<"verifyIdToken", "checkAccess", "jwt.sign", "setAuthCookies">>),
                     acc, {userToken})

\* app.post("/auth/google")
AuthGoogle(r, at) ==
    LET app == getAppFromRequest(r)
        claim == ClaimOf(r.bodyToken.payload)
        acc == AccessOf(claim.email, app)
        userToken == jwt_sign(claim, JWT_SECRET, at)
    IN  IF ~verifyIdToken(r.bodyToken)
        THEN Outcome(Response("auth/google", 401, [error |-> "Invalid Token"], <<>>,
                              <<"verifyIdToken">>), NoAccess, {})
        ELSE IF ~acc.result.allowed
        THEN Outcome(Response("auth/google", 403,
                              [error |-> "Access Denied (Only VNRVJIET allowed)",
                               message |-> acc.result.reason], <<>>,
                              <<"verifyIdToken", "checkAccess">>), acc, {})
        ELSE IF ~getCookieSettings(r).ok
        THEN \* the TypeError of getCookieSettings lands in the catch block
             Outcome(Response("auth/google", 401, [error |-> "Invalid Token"], <<>>,
                              <<"verifyIdToken", "checkAccess", "jwt.sign", "setAuthCookies">>),
                     acc, {})
        ELSE Outcome(Response("auth/google", 200,
                              [token |-> userToken, user |-> JsonObject(claim)],
                              setAuthCookies(r, userToken, claim),
                              <<"verifyIdToken", "checkAccess", "jwt.sign", "setAuthCookies">>),
                     acc, {userToken})

CheckAuthUnauthorized(r, at) ==
    LET app == getAppFromRequest(r)
        v == jwt_verify(r.userToken, JWT_SECRET, at)
        acc == AccessOf(Get(v.decoded, "email"), app)
    IN  IF ~Truthy(r.userToken)
        THEN Outcome(Response("check-auth", 401, [logged_in |-> FALSE], <<>>, <<>>),
                     NoAccess, {})
        ELSE IF ~v.ok
        THEN Outcome(Response("check-auth", 401, [logged_in |-> FALSE], <<>>,
                              <<"jwt.verify">>), NoAccess, {})
        ELSE IF ~acc.result.allowed
        THEN Outcome(Response("check-auth", 403,
                              [logged_in |-> FALSE,
                               error |-> "Access denied for this application"], <<>>,
                              <<"jwt.verify", "checkAccess">>), acc, {})
        ELSE Outcome(Response("check-auth", 200,
                              [logged_in |-> TRUE, user |-> v.decoded], <<>>,
                              <<"jwt.verify", "checkAccess">>), acc, {})

\* app.get("/check-auth")
CheckAuth(r, at) ==
    LET app == getAppFromRequest(r)
        v == jwt_verify(r.userToken, JWT_SECRET, at)
        acc == AccessOf(Get(v.decoded, "email"), app)
    IN  IF ~Truthy(r.userToken)
        THEN Outcome(Response("check-auth", 200, [logged_in |-> FALSE], <<>>, <<>>),
                     NoAccess, {})
        ELSE IF ~v.ok
        THEN Outcome(Response("check-auth", 200, [logged_in |-> FALSE], <<>>,
                              <<"jwt.verify">>), NoAccess, {})
        ELSE IF ~acc.result.allowed
        THEN Outcome(Response("check-auth", 200,
                              [logged_in |-> FALSE,
                               error |-> "Access denied for this application"], <<>>,
                              <<"jwt.verify", "checkAccess">>), acc, {})
        ELSE Outcome(Response("check-auth", 200,
                              [logged_in |-> TRUE, user |-> v.decoded], <<>>,
                              <<"jwt.verify", "checkAccess">>), acc, {})

VerifyTokenNoPolicy(r, at) ==
    LET v == jwt_verify(r.bodyToken, JWT_SECRET, at)
    IN  IF ~Truthy(r.bodyToken)
        THEN Outcome(Response("verify-token", 401, [valid |-> FALSE], <<>>, <<>>),
                     NoAccess, {})
        ELSE IF ~v.ok
        THEN Outcome(Response("verify-token", 403, [valid |-> FALSE], <<>>,
                              <<"jwt.verify">>), NoAccess, {})
        ELSE Outcome(Response("verify-token", 200,
                              [valid |-> TRUE, user |-> v.decoded], <<>>,
                              <<"jwt.verify">>), NoAccess, {})

\* app.post("/verify-token")
VerifyToken(r, at) ==
    LET app == getAppFromRequest(r)
        v == jwt_verify(r.bodyToken, JWT_SECRET, at)
        acc == AccessOf(Get(v.decoded, "email"), app)
    IN  IF ~Truthy(r.bodyToken)
        THEN Outcome(Response("verify-token", 401, [valid |-> FALSE], <<>>, <<>>),
                     NoAccess, {})
        ELSE IF ~v.ok
        THEN Outcome(Response("verify-token", 403, [valid |-> FALSE], <<>>,
                              <<"jwt.verify">>), NoAccess, {})
        ELSE IF ~acc.result.allowed
        THEN Outcome(Response("verify-token", 403,
                              [valid |-> FALSE,
                               error |-> "Access denied for this application"], <<>>,
                              <<"jwt.verify", "checkAccess">>), acc, {})
        ELSE Outcome(Response("verify-token", 200,
                              [valid |-> TRUE, user |-> v.decoded], <<>>,
                              <<"jwt.verify", "checkAccess">>), acc, {})

\* app.post("/logout"): the TypeError of getCookieSettings escapes the handler
\* and Express answers 500
Logout(r) ==
    IF ~getCookieSettings(r).ok
    THEN Outcome([Response("logout", 500, NoBody, <<>>, <<"clearAuthCookies">>)
                     EXCEPT !.thrown = TRUE], NoAccess, {})
    ELSE Outcome(Response("logout", 200, [success |-> TRUE], clearAuthCookies(r),
                          <<"clearAuthCookies">>), NoAccess, {})

\* app.get("/health")
Health(at) ==
    Outcome(Response("health", 200,
                     [status |-> "healthy", service |-> "auth-server-v2", timestamp |-> at],
                     <<>>, <<>>), NoAccess, {})

(***************************************************************************)
(* Downstream backend: user directory, token extraction, middleware.       *)
(***************************************************************************)
Bearer == <<"B","e","a","r","e","r"," ">>
Basic == <<"B","a","s","i","c"," ">>

\* an Authorization header: its scheme prefix and the characters after it
AuthorizationHeader(scheme, credentials) ==
    [t |-> "header", s |-> scheme, cred |-> credentials]

\* authHeader && authHeader.startsWith('Bearer ') ? authHeader.substring(7) : undefined
BearerToken(r) ==
    IF Truthy(r.authorization) /\ startsWith(r.authorization.s, Bearer)
    THEN r.authorization.cred
    ELSE Undefined

ExtractTokenHeaderFirst(r) ==
    IF Truthy(BearerToken(r)) THEN BearerToken(r) ELSE Or(r.userToken, r.token)

\* req.cookies.userToken || req.cookies.token, else the bearer header
ExtractToken(r) ==
    LET cookie == Or(r.userToken, r.token)
    IN  IF Truthy(cookie) THEN cookie ELSE BearerToken(r)

\* req.cookies.userToken, else the bearer header
ExtractSSOToken(r) ==
    IF Truthy(r.userToken) THEN r.userToken ELSE BearerToken(r)

\* the record of the user directory that a successful lookup returns
DbUser == [_id |-> Str(<<"i","d","1">>), role |-> Str(<<"a","d","m","i","n">>)]

\* User.findOne({email}): "found", "missing" (null) or "error" (rejects)
findOne(r) == r.db

\* User.findById(id): mongoose turns findById(undefined) into a lookup of
\* _id null, which finds nothing
findById(id, r) ==
    IF r.db = "error" THEN "error"
    ELSE IF id = Undefined THEN "missing"
    ELSE r.db

Passed(handler, attrs, calls) ==
    [Response(handler, 0, NoBody, <<>>, calls) EXCEPT !.next = TRUE, !.attrs = attrs]

Failure(handler, status, message, calls) ==
    Response(handler, status, [success |-> FALSE, message |-> message], <<>>, calls)

verifyTokenTrustsToken(r, at) ==
    LET token == ExtractToken(r)
        v == jwt_verify(token, JWT_SECRET, at)
        decoded == v.decoded
    IN  IF ~Truthy(token)
        THEN Failure("verifyToken", 401, "Unauthorized - no token provided", <<>>)
        ELSE IF ~v.ok
        THEN Failure("verifyToken", 500, "Server error", <<"jwt.verify">>)
        ELSE IF Truthy(Get(decoded, "userId"))
        THEN Passed("verifyToken",
                    [userId |-> decoded.userId, userRole |-> Get(decoded, "role")],
                    <<"jwt.verify", "findById">>)
        ELSE IF Truthy(Get(decoded, "email"))
        THEN CASE findOne(r) = "error" ->
                      Failure("verifyToken", 500, "Database error", <<"jwt.verify", "findOne">>)
               [] findOne(r) = "missing" ->
                      Failure("verifyToken", 401, "User not found", <<"jwt.verify", "findOne">>)
               [] OTHER ->
                      Passed("verifyToken",
                             [userId |-> DbUser._id, userRole |-> DbUser.role,
                              ssoUser |-> decoded],
                             <<"jwt.verify", "findOne">>)
        ELSE Failure("verifyToken", 401, "Invalid token structure", <<"jwt.verify">>)

\* verifyToken middleware of the backend
verifyToken(r, at) ==
    LET token == ExtractToken(r)
        v == jwt_verify(token, JWT_SECRET, at)
        decoded == v.decoded
    IN  IF ~Truthy(token)
        THEN Failure("verifyToken", 401, "Unauthorized - no token provided", <<>>)
        ELSE IF ~v.ok
        THEN Failure("verifyToken", 500, "Server error", <<"jwt.verify">>)
        ELSE IF Truthy(Get(decoded, "email"))
        THEN CASE findOne(r) = "error" ->
                      Failure("verifyToken", 500, "Database error", <<"jwt.verify", "findOne">>)
               [] findOne(r) = "missing" ->
                      Failure("verifyToken", 401, "User not found", <<"jwt.verify", "findOne">>)
               [] OTHER ->
                      Passed("verifyToken",
                             [userId |-> DbUser._id, userRole |-> DbUser.role,
                              ssoUser |-> decoded],
                             <<"jwt.verify", "findOne">>)
        ELSE IF Truthy(Get(decoded, "userId"))
        THEN Passed("verifyToken",
                    [userId |-> decoded.userId,
                     userRole |-> IF findById(decoded.userId, r) = "found"
                                     /\ DbUser.role # Get(decoded, "role")
                                  THEN DbUser.role
                                  ELSE Get(decoded, "role")],
                    <<"jwt.verify", "findById">>)
        ELSE Failure("verifyToken", 401, "Invalid token structure", <<"jwt.verify">>)

\* what verifySSOToken makes of the answer of /verify-token: response.data of
\* a 2xx answer, {valid: false, error: error.response.data} of any other
VerifyTokenAnswer(response) ==
    IF response.status = 200
    THEN [thrown |-> FALSE, data |-> response.body, sent |-> TRUE]
    ELSE [thrown |-> FALSE, data |-> [valid |-> FALSE, error |-> response.body],
          sent |-> TRUE]

\* the answer of a gateway in front of the auth server that cannot reach it
BadGateway == Response("verify-token", 502, [error |-> "Bad Gateway"], <<>>, <<>>)

verifySSOTokenThrowsOnServerError(token, r, at) ==
    IF ~r.ssoServerUrl
    THEN [thrown |-> TRUE, data |-> NoBody, sent |-> FALSE]
    ELSE IF r.net \in {"down", "gateway"}
    THEN [thrown |-> TRUE, data |-> NoBody, sent |-> TRUE]
    ELSE VerifyTokenAnswer(VerifyToken([Request("verify-token")
                                           EXCEPT !.bodyToken = token,
                                                  !.xAppName = r.appName], at).res)

\* verifySSOToken(token): POST {token} to /verify-token of the auth server
\* with x-app-name = config.auth.appName; thrown, before any call, when the
\* URL is not configured, and when no response arrives; sent tells whether
\* axios.post was reached
verifySSOToken(token, r, at) ==
    IF ~r.ssoServerUrl
    THEN [thrown |-> TRUE, data |-> NoBody, sent |-> FALSE]
    ELSE IF r.net = "down"
    THEN [thrown |-> TRUE, data |-> NoBody, sent |-> TRUE]
    ELSE IF r.net = "gateway"
    THEN VerifyTokenAnswer(BadGateway)
    ELSE VerifyTokenAnswer(VerifyToken([Request("verify-token")
                                           EXCEPT !.bodyToken = token,
                                                  !.xAppName = r.appName], at).res)

\* result.user.id || result.user._id
UserIdOf(user) == Or(Get(user, "id"), Get(user, "_id"))

\* verifySSOTokenMiddleware
verifySSOTokenMiddleware(r, at) ==
    LET token == ExtractSSOToken(r)
        result == verifySSOToken(token, r, at)
    IN  IF ~Truthy(token)
        THEN Failure("verifySSOTokenMiddleware", 401,
                     "Authentication required - no token provided", <<>>)
        ELSE IF result.thrown
        THEN Failure("verifySSOTokenMiddleware", 500,
                     "Error verifying authentication", <<"verifySSOToken">>)
        ELSE IF ~result.data.valid
        THEN Failure("verifySSOTokenMiddleware", 401,
                     "Invalid or expired token", <<"verifySSOToken">>)
        ELSE Passed("verifySSOTokenMiddleware",
                    [ssoUser |-> result.data.user, userId |-> UserIdOf(result.data.user)],
                    <<"verifySSOToken">>)

verifyHybridTokenNoReturn(r, at) ==
    LET token == ExtractToken(r)
        ssoResult == verifySSOToken(token, r, at)
        v == jwt_verify(token, JWT_SECRET, at)
        found == findById(Get(v.decoded, "userId"), r)
        sso == [ssoUser |-> ssoResult.data.user,
                userId |-> UserIdOf(ssoResult.data.user), authMethod |-> "sso"]
        local == [user |-> DbUser, userId |-> DbUser._id, authMethod |-> "local"]
    IN  IF ~Truthy(token)
        THEN Failure("verifyHybridToken", 401,
                     "Authentication required - no token provided", <<>>)
        ELSE IF ~ssoResult.thrown /\ ssoResult.data.valid
        THEN IF r.namedExports /\ v.ok /\ found = "found"
             THEN Passed("verifyHybridToken", Merge(sso, local),
                         <<"verifySSOToken", "jwt.verify", "findById">>)
             ELSE [Failure("verifyHybridToken", 401, "Invalid or expired token",
                           <<"verifySSOToken", "jwt.verify">>)
                      EXCEPT !.next = TRUE, !.attrs = sso]
        ELSE IF ~r.namedExports \/ ~v.ok \/ found # "found"
        THEN Failure("verifyHybridToken", 401, "Invalid or expired token",
                     <<"verifySSOToken", "jwt.verify">>)
        ELSE Passed("verifyHybridToken", local,
                    <<"verifySSOToken", "jwt.verify", "findById">>)

verifyHybridTokenLocalFirst(r, at) ==
    LET token == ExtractToken(r)
        ssoResult == verifySSOToken(token, r, at)
        v == jwt_verify(token, JWT_SECRET, at)
        found == findById(Get(v.decoded, "userId"), r)
    IN  IF ~Truthy(token)
        THEN Failure("verifyHybridToken", 401,
                     "Authentication required - no token provided", <<>>)
        ELSE IF r.namedExports /\ v.ok /\ found = "found"
        THEN Passed("verifyHybridToken",
                    [user |-> DbUser, userId |-> DbUser._id, authMethod |-> "local"],
                    <<"jwt.verify", "findById">>)
        ELSE IF ~ssoResult.thrown /\ ssoResult.data.valid
        THEN Passed("verifyHybridToken",
                    [ssoUser |-> ssoResult.data.user,
                     userId |-> UserIdOf(ssoResult.data.user),
                     authMethod |-> "sso"],
                    <<"jwt.verify", "verifySSOToken">>)
        ELSE Failure("verifyHybridToken", 401, "Invalid or expired token",
                     <<"jwt.verify", "verifySSOToken">>)

\* verifyHybridToken; jwt is the namespace object of import('jsonwebtoken')
verifyHybridToken(r, at) ==
    LET token == ExtractToken(r)
        ssoResult == verifySSOToken(token, r, at)
        v == jwt_verify(token, JWT_SECRET, at)
        found == findById(Get(v.decoded, "userId"), r)
    IN  IF ~Truthy(token)
        THEN Failure("verifyHybridToken", 401,
                     "Authentication required - no token provided", <<>>)
        ELSE IF ~ssoResult.thrown /\ ssoResult.data.valid
        THEN Passed("verifyHybridToken",
                    [ssoUser |-> ssoResult.data.user,
                     userId |-> UserIdOf(ssoResult.data.user),
                     authMethod |-> "sso"],
                    <<"verifySSOToken">>)
        ELSE IF ~r.namedExports \/ ~v.ok
        THEN \* jwt.verify is not a function, or it throws
             Failure("verifyHybridToken", 401, "Invalid or expired token",
                     <<"verifySSOToken", "jwt.verify">>)
        ELSE IF found = "error"
        THEN Failure("verifyHybridToken", 401, "Invalid or expired token",
                     <<"verifySSOToken", "jwt.verify", "findById">>)
        ELSE IF found = "missing"
        THEN Failure("verifyHybridToken", 401, "User not found",
                     <<"verifySSOToken", "jwt.verify", "findById">>)
        ELSE Passed("verifyHybridToken",
                    [user |-> DbUser, userId |-> DbUser._id, authMethod |-> "local"],
                    <<"verifySSOToken", "jwt.verify", "findById">>)

\* what checkSSOAuth makes of the answer of /check-auth: response.data of a
\* 2xx answer, {logged_in: false} of any other
CheckAuthAnswer(response) ==
    IF response.status = 200
    THEN [thrown |-> FALSE, data |-> response.body]
    ELSE [thrown |-> FALSE, data |-> [logged_in |-> FALSE]]

\* checkSSOAuth(cookies): GET /check-auth of the auth server with every
\* cookie of the request and x-app-name = config.auth.appName; thrown when
\* the URL is not configured or no response arrives
checkSSOAuth(r, at) ==
    IF ~r.ssoServerUrl \/ r.net = "down"
    THEN [thrown |-> TRUE, data |-> NoBody]
    ELSE CheckAuthAnswer(CheckAuth([Request("check-auth")
                                       EXCEPT !.userToken = r.userToken,
                                              !.token = r.token,
                                              !.xAppName = r.appName], at).res)

\* router.get("/sso/check-auth")
SsoCheckAuth(r, at) ==
    LET result == checkSSOAuth(r, at)
    IN  IF result.thrown
        THEN Failure("sso/check-auth", 500, "Error checking authentication",
                     <<"checkSSOAuth">>)
        ELSE IF result.data.logged_in
        THEN Response("sso/check-auth", 200,
                      [success |-> TRUE, user |-> result.data.user], <<>>,
                      <<"checkSSOAuth">>)
        ELSE Failure("sso/check-auth", 401, "Not authenticated", <<"checkSSOAuth">>)

\* the handler of router.get("/check-auth-hybrid"): m is what verifyHybridToken
\* left on req and res
CheckAuthHybridHandler(m) ==
    IF ~m.next
    THEN [m EXCEPT !.handler = "check-auth-hybrid"]
    ELSE [m EXCEPT !.handler = "check-auth-hybrid",
                   !.status = 200,
                   !.body = [success |-> TRUE,
                             user |-> IF "ssoUser" \in DOMAIN m.attrs
                                      THEN m.attrs.ssoUser
                                      ELSE Get(m.attrs, "user"),
                             authMethod |-> IF "authMethod" \in DOMAIN m.attrs
                                            THEN m.attrs.authMethod
                                            ELSE "unknown"]]

\* router.get("/check-auth-hybrid", verifyHybridToken, ...)
CheckAuthHybrid(r, at) == CheckAuthHybridHandler(verifyHybridToken(r, at))

\* what exchangeGoogleTokenForSSO makes of the answer of /auth/google:
\* {data, headers} of a 2xx answer, else an Error whose message is
\* error.response.data.message or the default text
ExchangeAnswer(o) ==
    IF o.res.status = 200
    THEN [thrown |-> FALSE, data |-> o.res.body, cookies |-> o.res.cookies,
          message |-> Undefined, signed |-> o.signed]
    ELSE [thrown |-> TRUE, data |-> NoBody, cookies |-> <<>>,
          message |-> IF Truthy(Get(o.res.body, "message"))
                      THEN o.res.body.message
                      ELSE "Failed to exchange Google token with SSO server",
          signed |-> o.signed]

\* the request exchangeGoogleTokenForSSO sends to the auth server
ExchangeRequest(googleToken, r) ==
    [Request("auth/google") EXCEPT !.bodyToken = googleToken,
                                   !.xAppName = r.appName,
                                   !.hostname = Str(authHost)]

\* exchangeGoogleTokenForSSO(googleToken, origin): POST {token, origin} to
\* /auth/google of the auth server with x-app-name = config.auth.appName; the
\* auth server does not read body.origin; the request reaches it under the
\* host name of ssoServerUrl
exchangeGoogleTokenForSSO(googleToken, r, at) ==
    IF ~r.ssoServerUrl
    THEN [thrown |-> TRUE, data |-> NoBody, cookies |-> <<>>,
          message |-> "SSO server URL not configured", signed |-> {}]
    ELSE IF r.net = "down"
    THEN [thrown |-> TRUE, data |-> NoBody, cookies |-> <<>>,
          message |-> "Failed to exchange Google token with SSO server", signed |-> {}]
    ELSE ExchangeAnswer(AuthGoogle(ExchangeRequest(googleToken, r), at))

\* a variant that hands setHeader the first Set-Cookie value only
SsoGoogleAnswerFirstCookie(e) ==
    IF e.thrown
    THEN Outcome(Failure("sso/google", 401, e.message, <<"exchangeGoogleTokenForSSO">>),
                 NoAccess, e.signed)
    ELSE Outcome(Response("sso/google", 200,
                          [success |-> TRUE, token |-> Get(e.data, "token"),
                           user |-> Get(e.data, "user")],
                          SubSeq(e.cookies, 1, 1), <<"exchangeGoogleTokenForSSO">>),
                 NoAccess, e.signed)

\* the rest of router.post("/sso/google") once the exchange has settled
SsoGoogleAnswer(e) ==
    IF e.thrown
    THEN Outcome(Failure("sso/google", 401, e.message, <<"exchangeGoogleTokenForSSO">>),
                 NoAccess, e.signed)
    ELSE Outcome(Response("sso/google", 200,
                          [success |-> TRUE, token |-> Get(e.data, "token"),
                           user |-> Get(e.data, "user")],
                          e.cookies, <<"exchangeGoogleTokenForSSO">>),
                 NoAccess, e.signed)

\* router.post("/sso/google")
SsoGoogle(r, at) ==
    IF ~Truthy(r.bodyToken)
    THEN Outcome(Failure("sso/google", 400, "Google token is required", <<>>),
                 NoAccess, {})
    ELSE SsoGoogleAnswer(exchangeGoogleTokenForSSO(r.bodyToken, r, at))

\* the timeout option of the axios call a backend handler makes to the auth
\* server, in milliseconds; 0, the default of axios, is no timeout
OutboundTimeout(handler) ==
    CASE handler \in {"verifySSOTokenMiddleware", "verifyHybridToken",
                      "check-auth-hybrid"} -> 5000        \* verifySSOToken
      [] handler = "sso/check-auth" -> 5000                \* checkSSOAuth
      [] OTHER -> 0                                        \* exchangeGoogleTokenForSSO

(***************************************************************************)
(* Frontend auth store (zustand).                                          *)
(***************************************************************************)
Null == [t |-> "null", s |-> <<>>]

\* an error message held by the store
Message(text) == [t |-> "message", s |-> <<>>, text |-> text]

\* the state the store is created with; inProgress is
\* _isCheckingAuthInProgress, which the initial state does not have
InitialStore ==
    [user |-> Null, isAuthenticated |-> FALSE, error |-> Null,
     isLoading |-> FALSE, isCheckingAuth |-> FALSE, inProgress |-> FALSE]

\* set(partial): the store with the given properties replaced
set(state, partial) == Merge(state, partial)

\* the state both branches of logout, and every failure branch, leave
SignedOut(state) ==
    set(state, [user |-> Null, isAuthenticated |-> FALSE, error |-> Null])

\* an invocation of an async function of the store: its number in the order
\* of invocation, the function, where it stands (phase), its safety timer
\* ("none", "armed", "cleared", "fired") and the request it sends
Invocation(id, op, phase, timer, request) ==
    [id |-> id, op |-> op, phase |-> phase, timer |-> timer, request |-> request]

\* the delay of the safety timer an async function of the store arms, in
\* milliseconds; 0 when it arms none
SafetyTimeoutNone(op) == 0

SafetyTimeout(op) == IF op = "checkAuth" THEN 5000 ELSE 0

\* what an axios call of the store ends with: no response (arrived FALSE),
\* or a response with status and data; axios resolves on 2xx and rejects
\* otherwise
Answer(arrived, status, data) == [arrived |-> arrived, status |-> status, data |-> data]

NoAnswer == Answer(FALSE, 0, NoBody)

Resolved(a) == a.arrived /\ a.status \in 200..299

NotRegisteredMessage ==
    "Access Denied: This application is only for registered faculty members."
CollegeEmailMessage ==
    "Login failed. Please use your college email (@vnrvjiet.in only)"

\* the errorMessage the catch block of loginWithSSO computes from the error
\* of a rejected axios call (error.response = a when a arrived) or from an
\* Error thrown in the try block (message)
LoginErrorMessage(a, message) ==
    IF a.arrived /\ a.status = 401 THEN NotRegisteredMessage
    ELSE IF a.arrived /\ a.status = 403 THEN CollegeEmailMessage
    ELSE IF a.arrived /\ "message" \in DOMAIN a.data THEN a.data.message
    ELSE message

\* the catch block of loginWithSSO
LoginFailed(state, a, message) ==
    set(state, [error |-> Message(LoginErrorMessage(a, message)), isLoading |-> FALSE,
                isAuthenticated |-> FALSE, user |-> Null])

\* loginWithSSO after the answer a of POST /sso/google: TRUE when it goes on
\* to fetch the user
LoginExchanged(a) == Resolved(a) /\ "success" \in DOMAIN a.data /\ a.data.success

\* the store after the answer a of POST /sso/google when loginWithSSO ends
\* there
LoginAfterExchange(state, a) ==
    IF Resolved(a)
    THEN LoginFailed(state, NoAnswer,
                     IF "message" \in DOMAIN a.data THEN a.data.message
                     ELSE "SSO authentication failed")
    ELSE LoginFailed(state, a, "Network Error")

\* the store after the answer a of the GET /check-auth of loginWithSSO
LoginAfterFetch(state, a) ==
    IF ~Resolved(a) THEN LoginFailed(state, a, "Network Error")
    ELSE IF "success" \in DOMAIN a.data /\ a.data.success /\ "user" \in DOMAIN a.data
    THEN set(state, [user |-> a.data.user, isAuthenticated |-> TRUE,
                     error |-> Null, isLoading |-> FALSE])
    ELSE LoginFailed(state, NoAnswer, "Failed to fetch user data after SSO login")

\* the store after checkAuth's GET /check-auth ended with a
CheckAuthSettled(state, a) ==
    IF Resolved(a)
    THEN set(state, [user |-> Get(a.data, "user"), isAuthenticated |-> TRUE,
                     isCheckingAuth |-> FALSE, error |-> Null, inProgress |-> FALSE])
    ELSE set(SignedOut(state), [isCheckingAuth |-> FALSE, inProgress |-> FALSE])

(***************************************************************************)
(* Inputs.                                                                 *)
(***************************************************************************)
InternalEmail == Str(<<"u">> \o TrustedSuffix)
InternalEmailUpper == Str(<<"U">> \o TrustedSuffixUpper)
ExternalEmail == Str(<<"u">> \o gmail)

\* identity claims of Google ID tokens
Identities ==
    { [email |-> InternalEmail, name |-> Str(<<"A">>), picture |-> Str(<<"p">>),
       family_name |-> Str(<<"F">>)],
      [email |-> InternalEmailUpper, name |-> Str(<<"B">>), picture |-> Str(<<"q">>)],
      [email |-> ExternalEmail, name |-> Str(<<"C">>), picture |-> Str(<<"r">>),
       family_name |-> Str(<<"G">>)],
      [name |-> Str(<<"D">>)] }

IdToken(valid, payload) == [t |-> "idtoken", valid |-> valid, payload |-> payload]

\* body.token of POST /auth/google: absent, rejected by Google's verification,
\* or verified with one of the identity claims
GoogleTokens ==
    {Undefined} \cup {IdToken(FALSE, p) : p \in {q \in Identities : q.name = Str(<<"A">>)}}
                \cup {IdToken(TRUE, p) : p \in Identities}

Garbage == Str(<<"x",".","y",".","z">>)

\* a well-formed credential signed with a key that is not the server's
ForgedToken ==
    jwt_sign([email |-> InternalEmail, name |-> Str(<<"A">>)], ForeignSecret, 0)

\* the legacy local credential of the backend: {userId, role}
LegacyToken ==
    [t |-> "jwt",
     payload |-> [userId |-> Str(<<"i","d","1">>), role |-> Str(faculty),
                  iat |-> 0, exp |-> ThirtyDays],
     key |-> JWT_SECRET]

\* what a client can present as a session credential
PresentableTokens == issued \cup {Undefined, Garbage, ForgedToken, LegacyToken}

OriginOf(label) == Str(HttpsScheme \o label \o <<".">> \o RootDomain)

\* the app signals of a request
AppContexts ==
    { [bodyApp |-> Undefined, queryApp |-> Undefined, xAppName |-> Undefined,
       origin |-> Undefined, referer |-> Undefined],
      [bodyApp |-> Str(passport), queryApp |-> Undefined, xAppName |-> Undefined,
       origin |-> OriginOf(faculty), referer |-> Undefined],
      [bodyApp |-> Undefined, queryApp |-> Undefined, xAppName |-> Str(keys),
       origin |-> Undefined, referer |-> Undefined],
      [bodyApp |-> Undefined, queryApp |-> Undefined, xAppName |-> Undefined,
       origin |-> OriginOf(passport), referer |-> OriginOf(faculty)],
      [bodyApp |-> Undefined, queryApp |-> Undefined, xAppName |-> Undefined,
       origin |-> Str(HttpsScheme \o RootDomain),
       referer |-> Str(HttpsScheme \o faculty \o <<".">> \o RootDomain \o <<"/","x">>)] }

Hostnames == {Undefined, Str(localhost), Str(authHost)}

\* config.auth.appName of a backend
BackendAppNames == {Str(keys), Str(wall)}

DbOutcomes == {"found", "missing", "error"}

\* the central auth server seen from a backend: reachable (the backend's app
\* name travels in x-app-name), configured but not answering (refused, timed
\* out), or not configured
Upstreams ==
    {[ssoServerUrl |-> TRUE, net |-> "up", appName |-> a] : a \in BackendAppNames}
    \cup { [ssoServerUrl |-> TRUE, net |-> "down", appName |-> Str(keys)],
           [ssoServerUrl |-> FALSE, net |-> "none", appName |-> Str(keys)] }

\* the local check of verifyHybridToken: jwt.verify is there and the directory
\* answers in one of its ways, or jwt.verify is not a function
LocalChecks ==
    {[db |-> d, namedExports |-> TRUE] : d \in DbOutcomes}
    \cup {[db |-> "found", namedExports |-> FALSE]}

\* where a downstream request carries its credential
Carried(handler, tok) ==
    { [Request(handler) EXCEPT !.userToken = tok],
      [Request(handler) EXCEPT !.token = tok],
      [Request(handler) EXCEPT !.authorization = AuthorizationHeader(Bearer, tok)],
      [Request(handler) EXCEPT !.authorization = AuthorizationHeader(Basic, tok)] }

(***************************************************************************)
(* The state machine.                                                      *)
(***************************************************************************)
Init ==
    /\ PUBLIC_APPS \in {LoadPublicApps(env) : env \in EnvValues}
    /\ now = 0
    /\ ticks = 0
    /\ issued = {}
    /\ req = NoRequest
    /\ res = NoResponse
    /\ access = NoAccess
    /\ pending = {}
    /\ store = InitialStore
    /\ invocations = {}

\* the response of request r is sent, with outcome o
Complete(r, o) ==
    /\ Cardinality(issued \cup o.signed) <= MaxIssued
    /\ issued' = issued \cup o.signed
    /\ req' = r
    /\ res' = o.res
    /\ access' = o.access
    /\ UNCHANGED <<PUBLIC_APPS, now, ticks>>

\* a handler ran to completion on request r with outcome o
Handle(r, o) ==
    /\ Complete(r, o)
    /\ UNCHANGED <<pending, store, invocations>>

Middleware(r, response) ==
    /\ req' = r
    /\ res' = response
    /\ access' = NoAccess
    /\ UNCHANGED <<PUBLIC_APPS, now, ticks, issued, pending,
                 store, invocations>>

\* the server is between two exchanges
Idle == req = NoRequest

TickSteps == {1, ThirtyDays - 1}

\* the clock advances between two exchanges
Tick ==
    /\ Idle
    /\ ticks < MaxTicks
    /\ \E d \in TickSteps : now' = now + d
    /\ ticks' = ticks + 1
    /\ UNCHANGED <<PUBLIC_APPS, issued, req, res, access, pending,
                 store, invocations>>

\* the response has been delivered and the exchange is over
EndExchange ==
    /\ ~Idle
    /\ req' = NoRequest
    /\ res' = NoResponse
    /\ access' = NoAccess
    /\ UNCHANGED <<PUBLIC_APPS, now, ticks, issued, pending,
                 store, invocations>>

DoAuthGoogle ==
    /\ Idle
    /\ \E g \in GoogleTokens, c \in AppContexts, h \in Hostnames :
        LET r == [Merge(Request("auth/google"), c) EXCEPT !.bodyToken = g, !.hostname = h]
        IN  Handle(r, AuthGoogle(r, now))

DoCheckAuth ==
    /\ Idle
    /\ \E tok \in PresentableTokens, c \in AppContexts :
        LET r == [Merge(Request("check-auth"), c) EXCEPT !.userToken = tok]
        IN  Handle(r, CheckAuth(r, now))

DoVerifyToken ==
    /\ Idle
    /\ \E tok \in PresentableTokens, c \in AppContexts :
        LET r == [Merge(Request("verify-token"), c) EXCEPT !.bodyToken = tok]
        IN  Handle(r, VerifyToken(r, now))

DoLogout ==
    /\ Idle
    /\ \E h \in Hostnames :
        LET r == [Request("logout") EXCEPT !.hostname = h]
        IN  Handle(r, Logout(r))

DoHealth ==
    /\ Idle
    /\ Handle(Request("health"), Health(now))

DoVerifyTokenMiddleware ==
    /\ Idle
    /\ \E tok \in PresentableTokens, db \in DbOutcomes :
        \E c \in Carried("verifyToken", tok) :
            LET r == [c EXCEPT !.db = db]
            IN  Middleware(r, verifyToken(r, now))

DoVerifySSOTokenMiddleware ==
    /\ Idle
    /\ \E tok \in PresentableTokens, u \in Upstreams :
        \E c \in Carried("verifySSOTokenMiddleware", tok) :
            LET r == Merge(c, u)
            IN  Middleware(r, verifySSOTokenMiddleware(r, now))

DoVerifyHybridToken ==
    /\ Idle
    /\ \E tok \in PresentableTokens, u \in Upstreams, l \in LocalChecks :
        \E c \in Carried("verifyHybridToken", tok) :
            LET r == Merge(Merge(c, u), l)
            IN  Middleware(r, verifyHybridToken(r, now))

DoSsoCheckAuth ==
    /\ Idle
    /\ \E tok \in PresentableTokens, u \in Upstreams :
        LET r == [Merge(Request("sso/check-auth"), u) EXCEPT !.userToken = tok]
        IN  Middleware(r, SsoCheckAuth(r, now))

DoCheckAuthHybrid ==
    /\ Idle
    /\ \E tok \in PresentableTokens, u \in Upstreams, l \in LocalChecks :
        LET r == [Merge(Merge(Request("check-auth-hybrid"), u), l)
                     EXCEPT !.userToken = tok]
        IN  Middleware(r, CheckAuthHybrid(r, now))

Next ==
    \/ Tick
    \/ EndExchange
    \/ DoAuthGoogle
    \/ DoCheckAuth
    \/ DoVerifyToken
    \/ DoLogout
    \/ DoHealth
    \/ DoVerifyTokenMiddleware
    \/ DoVerifySSOTokenMiddleware
    \/ DoVerifyHybridToken
    \/ DoSsoCheckAuth
    \/ DoCheckAuthHybrid

Spec == Init /\ [][Next]_vars

(***************************************************************************)
(* The auth server under concurrent requests.  Node runs a handler until   *)
(* it returns or reaches an await; of the four handlers only /auth/google  *)
(* awaits (client.verifyIdToken), so the interleavings are: any number of  *)
(* complete exchanges, and of begun logins, between the start of a login   *)
(* and its resumption.                                                     *)
(***************************************************************************)
\* the logins that may be in flight together
ConcurrentLogins ==
    { [Merge(Request("auth/google"), c) EXCEPT !.bodyToken = IdToken(TRUE, p),
                                               !.hostname = Str(authHost)] :
        p \in {q \in Identities : "family_name" \in DOMAIN q},
        c \in {d \in AppContexts : /\ d.bodyApp = Undefined
                                     /\ d.xAppName = Undefined
                                     /\ d.origin \in {Undefined, OriginOf(passport)}} }

\* /auth/google read its request and is suspended at await client.verifyIdToken
BeginAuthGoogle ==
    /\ Idle
    /\ Cardinality(pending) < MaxPending
    /\ \E r \in ConcurrentLogins \ pending : pending' = pending \cup {r}
    /\ UNCHANGED <<PUBLIC_APPS, now, ticks, issued, req, res, access,
                 store, invocations>>

\* Google answered: the rest of /auth/google runs to its response
ResumeAuthGoogle ==
    /\ Idle
    /\ \E r \in pending :
          /\ Complete(r, AuthGoogle(r, now))
          /\ pending' = pending \ {r}
          /\ UNCHANGED <<store, invocations>>

ConcNext ==
    \/ Tick
    \/ EndExchange
    \/ BeginAuthGoogle
    \/ ResumeAuthGoogle
    \/ DoCheckAuth
    \/ DoVerifyToken
    \/ DoLogout

ConcSpec == Init /\ [][ConcNext]_vars

(***************************************************************************)
(* Token extraction of the backend middleware: requests that carry         *)
(* credentials in several places at once.                                  *)
(***************************************************************************)
\* the credential /auth/google signs at clock time 0 for an internal identity
SessionToken ==
    jwt_sign([email |-> InternalEmail, name |-> Str(<<"A">>)], JWT_SECRET, 0)

CarriedTokens == {Garbage, LegacyToken, SessionToken}

AuthorizationHeaders ==
    {Undefined} \cup {AuthorizationHeader(scheme, tok) :
                         scheme \in {Bearer, Basic}, tok \in CarriedTokens}

\* every combination of userToken cookie, token cookie and Authorization
\* header, on a backend whose directory and central server answer
MultiCarried(handler) ==
    { [Request(handler) EXCEPT !.userToken = a, !.token = b, !.authorization = h,
                               !.db = "found", !.ssoServerUrl = TRUE, !.net = "up",
                               !.appName = Str(keys)] :
        a \in CarriedTokens \cup {Undefined}, b \in CarriedTokens \cup {Undefined},
        h \in AuthorizationHeaders }

ExtractVerifyToken ==
    /\ Idle
    /\ \E r \in MultiCarried("verifyToken") : Middleware(r, verifyToken(r, now))

ExtractVerifySSOTokenMiddleware ==
    /\ Idle
    /\ \E r \in MultiCarried("verifySSOTokenMiddleware") :
          Middleware(r, verifySSOTokenMiddleware(r, now))

ExtractVerifyHybridToken ==
    /\ Idle
    /\ \E r \in MultiCarried("verifyHybridToken") :
          Middleware(r, verifyHybridToken(r, now))

ExtractNext ==
    \/ EndExchange
    \/ ExtractVerifyToken
    \/ ExtractVerifySSOTokenMiddleware
    \/ ExtractVerifyHybridToken

ExtractSpec == Init /\ [][ExtractNext]_vars

(***************************************************************************)
(* The backend middleware against the user directory: verifyToken and      *)
(* verifyHybridToken on credentials of every payload shape (email, userId, *)
(* both, neither), with the directory finding the user, not finding it, or *)
(* failing.                                                                *)
(***************************************************************************)
\* a credential whose payload has an email and also the userId and role of
\* a legacy credential, neither of them the directory's
BothToken ==
    [t |-> "jwt",
     payload |-> [email |-> InternalEmail, userId |-> Str(<<"i","d","2">>),
                  role |-> Str(faculty), iat |-> 0, exp |-> ThirtyDays],
     key |-> JWT_SECRET]

\* a credential whose payload has neither email nor userId
BareToken ==
    [t |-> "jwt",
     payload |-> [name |-> Str(<<"A">>), iat |-> 0, exp |-> ThirtyDays],
     key |-> JWT_SECRET]

DirectoryTokens ==
    {Undefined, Garbage, ForgedToken, SessionToken, LegacyToken, BothToken, BareToken}

DirectoryVerifyToken ==
    /\ Idle
    /\ \E tok \in DirectoryTokens, db \in DbOutcomes :
        \E c \in Carried("verifyToken", tok) :
            LET r == [c EXCEPT !.db = db]
            IN  Middleware(r, verifyToken(r, now))

DirectoryVerifyHybridToken ==
    /\ Idle
    /\ \E tok \in DirectoryTokens, u \in Upstreams, l \in LocalChecks :
        \E c \in Carried("verifyHybridToken", tok) :
            LET r == Merge(Merge(c, u), l)
            IN  Middleware(r, verifyHybridToken(r, now))

DirectoryNext ==
    \/ Tick
    \/ EndExchange
    \/ DirectoryVerifyToken
    \/ DirectoryVerifyHybridToken

DirectorySpec == Init /\ [][DirectoryNext]_vars

(***************************************************************************)
(* verifySSOToken as a function of the token and of what the auth server   *)
(* does with the call: it answers, a gateway answers 502 in its place, no  *)
(* response arrives, or the URL is not configured.                         *)
(***************************************************************************)
SsoCallUpstreams == Upstreams \cup {[ssoServerUrl |-> TRUE, net |-> "gateway",
                                     appName |-> Str(keys)]}

\* the outcome of the call as a response record: body is what the promise
\* resolved with, thrown whether it rejected, calls whether axios.post ran
SsoCallResult(v) ==
    [Response("verifySSOToken", 0, v.data, <<>>,
              IF v.sent THEN <<"axios.post">> ELSE <<>>) EXCEPT !.thrown = v.thrown]

ApplyVerifySSOToken ==
    /\ Idle
    /\ \E tok \in DirectoryTokens \ {Undefined}, u \in SsoCallUpstreams :
        LET r == [Merge(Request("verifySSOToken"), u) EXCEPT !.bodyToken = tok]
        IN  Middleware(r, SsoCallResult(verifySSOToken(tok, r, now)))

SsoCallNext ==
    \/ Tick
    \/ EndExchange
    \/ ApplyVerifySSOToken

SsoCallSpec == Init /\ [][SsoCallNext]_vars

(***************************************************************************)
(* The app resolver as a pure function: parseAppFromUrl and                *)
(* getAppFromRequest applied to inputs drawn from bounded sets.  A URL     *)
(* input is put together from a prefix (scheme, userinfo), the labels of a *)
(* host and a tail (port, path, query, fragment).                          *)
(***************************************************************************)
RootLabels == split(RootDomain, ".")

UrlPrefixes ==
    { HttpsScheme, HttpScheme,
      <<"H","T","T","P","S",":","/","/">>,
      HttpsScheme \o <<"u","@">>,
      <<"f","t","p",":","/","/">> }

UrlHosts ==
    { <<passport>> \o RootLabels,
      <<faculty>> \o RootLabels,
      <<<<"a">>, <<"b">>>> \o RootLabels,
      <<<<"P","a","s","s","P","o","r","t">>,
        <<"V","J","S","T","A","R","T","U","P">>, <<"C","O","M">>>>,
      RootLabels,
      <<<<"e","x","a","m","p","l","e">>, <<"o","r","g">>>>,
      <<passport>> \o RootLabels \o <<<<"e","v","i","l">>, <<"c","o","m">>>>,
      <<<<"x">>, <<"e","v","i","l">> \o RootLabels[1], RootLabels[2]>>,
      <<wall, RootLabels[1], <<"o","r","g">>>>,
      <<passport>> \o RootLabels \o <<<<>>>> }

UrlTails ==
    { <<>>, <<"/","x">>, <<":","8","0","/","p","?","q","#","f">> }

NotUrls ==
    { Undefined, Str(<<>>), Str(<<"n","o","t"," ","a"," ","u","r","l">>),
      Str(passport \o <<".">> \o RootDomain),
      Str(<<"/","/">> \o passport \o <<".">> \o RootDomain),
      Str(HttpsScheme) }

UrlValues ==
    NotUrls \cup {Str(p \o join(h, ".") \o t) :
                    p \in UrlPrefixes, h \in UrlHosts, t \in UrlTails}

\* the Origin and Referer values of the resolver's requests
ResolverUrls ==
    { Undefined, Str(<<"n","o","t"," ","a"," ","u","r","l">>),
      OriginOf(passport), OriginOf(faculty),
      Str(HttpsScheme \o faculty \o <<".">> \o RootDomain \o <<"/","x">>),
      Str(HttpsScheme \o RootDomain),
      Str(HttpsScheme \o <<"e","x","a","m","p","l","e",".","o","r","g">>) }

\* body.app, query.app and the x-app-name header
ExplicitApps == {Undefined, Str(<<>>), Str(keys), Str(wall)}

ApplyParseAppFromUrl ==
    /\ Idle
    /\ \E u \in UrlValues :
          Middleware([Request("parseAppFromUrl") EXCEPT !.origin = u],
                     Response("parseAppFromUrl", 0, [app |-> parseAppFromUrl(u)],
                              <<>>, <<>>))

ApplyGetAppFromRequest ==
    /\ Idle
    /\ \E b \in ExplicitApps, q \in ExplicitApps, x \in ExplicitApps,
          o \in ResolverUrls, f \in ResolverUrls :
          LET r == [Request("getAppFromRequest")
                       EXCEPT !.bodyApp = b, !.queryApp = q, !.xAppName = x,
                              !.origin = o, !.referer = f]
          IN  Middleware(r, Response("getAppFromRequest", 0,
                                     [app |-> getAppFromRequest(r)], <<>>, <<>>))

ResolverNext ==
    \/ EndExchange
    \/ ApplyParseAppFromUrl
    \/ ApplyGetAppFromRequest

ResolverSpec == Init /\ [][ResolverNext]_vars

(***************************************************************************)
(* The backend's outbound calls.  A handler that calls the auth server is  *)
(* suspended at the await of its axios call (pending) until the call       *)
(* settles: the auth server answers, the connection fails, or the timer of *)
(* the call's timeout option fires.  Nothing obliges the auth server or    *)
(* the network to act; a timer that has been started does fire.            *)
(***************************************************************************)
\* inbound requests of the backend that reach an outbound call
OutboundRequests ==
    LET up == [ssoServerUrl |-> TRUE, net |-> "up", appName |-> Str(keys)]
    IN  {[Merge(Request(h), up) EXCEPT !.userToken = tok] :
            h \in {"verifySSOTokenMiddleware", "sso/check-auth"},
            tok \in {Garbage, SessionToken}}
        \cup {[Merge(Request(h), up) EXCEPT !.token = LegacyToken, !.db = "found"] :
                 h \in {"verifyHybridToken", "check-auth-hybrid"}}
        \cup {[Merge(Request("sso/google"), up) EXCEPT !.bodyToken = g] :
                 g \in {IdToken(FALSE, [name |-> Str(<<"D">>)]),
                        IdToken(TRUE, [email |-> InternalEmail, name |-> Str(<<"A">>)])}}

\* what the handler of request q answers once its outbound call has settled
Settled(q, at) ==
    CASE q.handler = "verifySSOTokenMiddleware" ->
             Outcome(verifySSOTokenMiddleware(q, at), NoAccess, {})
      [] q.handler = "verifyHybridToken" ->
             Outcome(verifyHybridToken(q, at), NoAccess, {})
      [] q.handler = "sso/check-auth" -> Outcome(SsoCheckAuth(q, at), NoAccess, {})
      [] q.handler = "check-auth-hybrid" -> Outcome(CheckAuthHybrid(q, at), NoAccess, {})
      [] OTHER -> SsoGoogle(q, at)

\* the suspended handler of r resumes with the outcome of its call
Resume(r, net) ==
    /\ Complete([r EXCEPT !.net = net], Settled([r EXCEPT !.net = net], now))
    /\ pending' = pending \ {r}
    /\ UNCHANGED <<store, invocations>>

\* a handler starts its axios call and is suspended
BeginOutbound ==
    /\ Cardinality(pending) < MaxPending
    /\ \E r \in OutboundRequests \ pending : pending' = pending \cup {r}
    /\ UNCHANGED <<PUBLIC_APPS, now, ticks, issued, req, res, access,
                 store, invocations>>

\* the auth server answers the call
AuthServerAnswers == \E r \in pending : Resume(r, "up")

\* the connection fails (refused, reset)
ConnectionFails == \E r \in pending : Resume(r, "down")

\* the timer of the call's timeout option fires and axios rejects
TimerFires(r) ==
    /\ r \in pending
    /\ OutboundTimeout(r.handler) > 0
    /\ Resume(r, "down")

OutboundTimesOut == \E r \in OutboundRequests : TimerFires(r)

OutboundNext ==
    \/ BeginOutbound
    \/ AuthServerAnswers
    \/ ConnectionFails
    \/ OutboundTimesOut

OutboundSpec ==
    /\ Init
    /\ [][OutboundNext]_vars
    /\ \A r \in OutboundRequests : WF_vars(TimerFires(r))

(***************************************************************************)
(* The cookie writers of the auth server: /auth/google and /logout on      *)
(* requests whose hostname Express derives from a Host header drawn from a *)
(* bounded set.                                                            *)
(***************************************************************************)
\* Host headers: none, names and literal addresses, with and without a port
HostHeaders ==
    { Undefined,
      Str(localhost),
      Str(localhost \o <<":","2","9","9","9">>),
      Str(<<"1","2","7",".","0",".","0",".","1">>),
      Str(<<"1","2","7",".","0",".","0",".","1",":","2","9","9","9">>),
      Str(<<"1","2","7",".","a",".","i","o">>),
      Str(<<"1","0",".","0",".","0",".","1">>),
      Str(<<"[",":",":","1","]">>),
      Str(<<"[",":",":","1","]",":","2","9","9","9">>),
      Str(authHost),
      Str(authHost \o <<":","4","4","3">>) }

CookieAuthGoogle ==
    /\ Idle
    /\ \E p \in Identities, c \in AppContexts, h \in HostHeaders :
        LET r == [Merge(Request("auth/google"), c)
                     EXCEPT !.bodyToken = IdToken(TRUE, p), !.hostname = req_hostname(h)]
        IN  Handle(r, AuthGoogle(r, now))

CookieLogout ==
    /\ Idle
    /\ \E h \in HostHeaders :
        LET r == [Request("logout") EXCEPT !.hostname = req_hostname(h)]
        IN  Handle(r, Logout(r))

CookieNext ==
    \/ EndExchange
    \/ CookieAuthGoogle
    \/ CookieLogout

CookieSpec == Init /\ [][CookieNext]_vars

(***************************************************************************)
(* The access policy as a pure function: the inputs are drawn from bounded *)
(* sets and checkAccess is applied to them.                                *)
(***************************************************************************)
EmailValues ==
    { InternalEmail, InternalEmailUpper,
      Str(<<"a",".","b">> \o TrustedSuffixMixed),
      Str(TrustedSuffix),
      ExternalEmail,
      Str(<<"u">> \o TrustedSuffix \o <<".","e","v","i","l">>),
      Str(<<"u">> \o Tail(TrustedSuffix)),
      Str(<<"u">> \o SubSeq(TrustedSuffix, 1, Len(TrustedSuffix) - 1)),
      Str(<<>>),
      Undefined,
      Num(<<"4","2">>) }

AppValues ==
    { Str(wall), Str(events), Str(passport), Str(faculty), Str(keys),
      Str(<<"W","a","l","l">>), Str(<<" ">> \o events), Undefined, Num(<<"4","2">>) }

ApplyCheckAccess ==
    /\ Idle
    /\ \E email \in EmailValues, app \in AppValues : access' = AccessOf(email, app)
    /\ UNCHANGED <<PUBLIC_APPS, now, ticks, issued, req, res, pending,
                 store, invocations>>

PolicySpec == Init /\ [][ApplyCheckAccess]_vars

(***************************************************************************)
(* Vocabulary of the properties, stated without the program's operators.   *)
(***************************************************************************)
\* the email is a string whose last twelve characters spell '@vnrvjiet.in'
\* in any mix of upper and lower case
HasTrustedSuffix(email) ==
    /\ email.t = "string"
    /\ Len(email.s) >= Len(TrustedSuffix)
    /\ \A i \in 1..Len(TrustedSuffix) :
          LET c == email.s[Len(email.s) - Len(TrustedSuffix) + i]
          IN  c = TrustedSuffix[i] \/ c = TrustedSuffixUpper[i]

\* the app name is one of the elements of PUBLIC_APPS
InPublicApps(app) ==
    \E i \in DOMAIN PUBLIC_APPS : Str(PUBLIC_APPS[i]) = app

PolicyAllows(email, app) == HasTrustedSuffix(email) \/ InPublicApps(app)

\* the credential is signed with the server's secret and is unexpired at `at`
Authentic(tok, at) ==
    /\ tok.t = "jwt"
    /\ tok.key = JWT_SECRET
    /\ at < tok.payload.exp

TokenEmail(tok) == IF "email" \in DOMAIN tok.payload THEN tok.payload.email ELSE Undefined

\* C1 (PolicySpec): whenever checkAccess is applied to an email that ends
\* with '@vnrvjiet.in' compared case-insensitively, the decision is
\* allowed = true, whatever the app name (undefined and non-public included).
C1_InternalEmailAllowed ==
    (access.called /\ HasTrustedSuffix(access.email)) => access.result.allowed

\* an upper-case internal email was allowed for an undefined app
C1_Witness ==
    /\ access.called
    /\ access.email = InternalEmailUpper
    /\ access.app = Undefined
    /\ access.result.allowed

\* C2 (PolicySpec): whenever checkAccess is applied to an app name that is a
\* member of PUBLIC_APPS, the decision is allowed = true and publicApp = true,
\* whatever the email (external, malformed, non-string, undefined).
C2_PublicAppAllowed ==
    (access.called /\ InPublicApps(access.app)) =>
        (access.result.allowed /\ access.result.publicApp)

\* a non-string email was allowed for the public app 'events'
C2_Witness ==
    /\ access.called
    /\ access.app = Str(events)
    /\ access.email = Num(<<"4","2">>)
    /\ access.result.allowed
    /\ access.result.publicApp

\* C3 (PolicySpec): whenever checkAccess is applied to an email without the
\* trusted suffix and an app outside PUBLIC_APPS (undefined included), the
\* decision is allowed = false with a non-empty reason string.
C3_OtherwiseDenied ==
    (access.called /\ ~HasTrustedSuffix(access.email) /\ ~InPublicApps(access.app)) =>
        /\ ~access.result.allowed
        /\ access.result.reason.t = "string"
        /\ Len(access.result.reason.s) > 0

\* an external email was denied for an undefined app while PUBLIC_APPS is not empty
C3_Witness ==
    /\ access.called
    /\ access.email = ExternalEmail
    /\ access.app = Undefined
    /\ Len(PUBLIC_APPS) > 0
    /\ ~access.result.allowed
    /\ access.result.reason = Str(DenyReason)

(***************************************************************************)
(* POST /auth/google.                                                      *)
(***************************************************************************)
\* the identity token of the request passed Google's verification
IdentityVerified(r) == r.bodyToken.t = "idtoken" /\ r.bodyToken.valid

IdentityEmail(r) ==
    IF "email" \in DOMAIN r.bodyToken.payload THEN r.bodyToken.payload.email ELSE Undefined

CookieNames(response) == {response.cookies[i].name : i \in DOMAIN response.cookies}

\* C4 (Spec): POST /auth/google never issues a credential for a denied
\* decision: when a run of the handler ends with checkAccess having denied
\* the verified identity, the response is 403, jwt.sign and setAuthCookies
\* were not reached, no cookie is written, the body has no token, and the
\* set of issued credentials is unchanged.
C4_NoIssueOnDenial ==
    [][ (/\ res'.handler = "auth/google"
         /\ res.handler = "none"
         /\ access'.called
         /\ ~access'.result.allowed)
        => (/\ res'.status = 403
            /\ \A i \in DOMAIN res'.calls : res'.calls[i] \notin {"jwt.sign", "setAuthCookies"}
            /\ res'.cookies = <<>>
            /\ "token" \notin DOMAIN res'.body
            /\ issued' = issued) ]_vars

\* an external identity was denied by /auth/google for an app that is not public
C4_Witness ==
    /\ res.handler = "auth/google"
    /\ IdentityVerified(req)
    /\ IdentityEmail(req) = ExternalEmail
    /\ access.called
    /\ ~access.result.allowed
    /\ res.status = 403

\* C5 (Spec): POST /auth/google responds 200 with {token, user} and both
\* cookies exactly when the identity token verifies and the policy allows,
\* 403 with {error, message} exactly when it verifies and the policy denies,
\* and 401 with {error} exactly when the identity token fails verification.
C5_AuthGoogleStatus ==
    res.handler = "auth/google" =>
        LET verified == IdentityVerified(req)
            allowed == verified /\ PolicyAllows(IdentityEmail(req), getAppFromRequest(req))
        IN  /\ (verified /\ allowed) <=>
                   (/\ res.status = 200
                    /\ DOMAIN res.body = {"token", "user"}
                    /\ CookieNames(res) = {"userToken", "user"})
            /\ (verified /\ ~allowed) <=>
                   (res.status = 403 /\ DOMAIN res.body = {"error", "message"})
            /\ (~verified) <=>
                   (res.status = 401 /\ DOMAIN res.body = {"error"})

\* C6 (Spec): round trip: right after POST /auth/google returned 200 for
\* claim C under app A, presenting the returned token to POST /verify-token
\* or to GET /check-auth in a request that resolves to the same app A yields
\* valid:true / logged_in:true with a user whose email, name and picture are
\* those of C.  "Right after" is: the clock still reads the issuance time.
C6_RoundTrip ==
    (res.handler = "auth/google" /\ res.status = 200 /\ res.body.token.payload.iat = now) =>
        \A c \in AppContexts :
            LET claim == req.bodyToken.payload
                field(o, f) == IF f \in DOMAIN o THEN o[f] ELSE Undefined
                same(user) == \A f \in {"email", "name", "picture"} :
                                  field(user, f) = field(claim, f)
                v == VerifyToken([Merge(Request("verify-token"), c)
                                     EXCEPT !.bodyToken = res.body.token], now).res
                k == CheckAuth([Merge(Request("check-auth"), c)
                                   EXCEPT !.userToken = res.body.token], now).res
            IN  getAppFromRequest(Merge(Request("none"), c)) = getAppFromRequest(req) =>
                    /\ v.status = 200 /\ v.body.valid /\ same(v.body.user)
                    /\ k.status = 200 /\ k.body.logged_in /\ same(k.body.user)

\* a credential was just issued to an external identity through a public app
\* named by the Origin header, and another request resolves to the same app
C6_Witness ==
    /\ res.handler = "auth/google"
    /\ res.status = 200
    /\ IdentityEmail(req) = ExternalEmail
    /\ req.bodyApp = Undefined
    /\ res.body.token \in issued
    /\ res.body.token.payload.iat = now
    /\ \E c \in AppContexts :
          /\ c.origin # req.origin
          /\ getAppFromRequest(Merge(Request("none"), c)) = getAppFromRequest(req)

(***************************************************************************)
(* Session verification.                                                   *)
(***************************************************************************)
\* the credentials a request carries: body token, the two cookies, and the
\* characters after the scheme of the Authorization header
Presented(r) ==
    ({r.bodyToken, r.userToken, r.token}
        \cup (IF r.authorization = Undefined THEN {} ELSE {r.authorization.cred}))
    \ {Undefined}

\* the credential carries no authority at `at`: it is not a JWT, it is signed
\* with another key, its expiry has passed, or the server issued it thirty
\* days ago or earlier
NoAuthority(tok, at) ==
    \/ tok.t # "jwt"
    \/ tok.key # JWT_SECRET
    \/ at >= tok.payload.exp
    \/ (tok \in issued /\ at >= tok.payload.iat + ThirtyDays)

Rejected(response) ==
    CASE response.handler = "verify-token" ->
             response.status # 200 /\ response.body.valid = FALSE
      [] response.handler = "check-auth" -> response.body.logged_in = FALSE
      [] OTHER -> ~response.next

\* C7 (Spec): a credential carries authority only while unexpired and
\* correctly signed: when every credential of a request is expired (for an
\* issued one: the clock is at or past issuance + 30 days) or is not signed
\* with the server secret, /verify-token answers valid:false, /check-auth
\* answers logged_in:false and the backend's verifyToken does not call next.
C7_NoAuthorityRejected ==
    (/\ res.handler \in {"verify-token", "check-auth", "verifyToken"}
     /\ \A tok \in Presented(req) : NoAuthority(tok, now))
    => Rejected(res)

\* an issued credential was presented to /verify-token exactly thirty days
\* after its issuance and was rejected
C7_Witness ==
    /\ res.handler = "verify-token"
    /\ req.bodyToken \in issued
    /\ now = req.bodyToken.payload.iat + ThirtyDays
    /\ res.body.valid = FALSE

\* C8 (Spec): acceptance depends on the app of the current request: an
\* unexpired credential issued to an external-domain email is rejected by
\* /check-auth (logged_in:false) and /verify-token (403, valid:false) when
\* the request resolves to an app outside PUBLIC_APPS, and is accepted when
\* the request resolves to a public app.
C8_PolicyPerRequest ==
    LET tok == IF res.handler = "check-auth" THEN req.userToken ELSE req.bodyToken
    IN  (/\ res.handler \in {"check-auth", "verify-token"}
         /\ tok \in issued
         /\ now < tok.payload.iat + ThirtyDays
         /\ ~HasTrustedSuffix(TokenEmail(tok)))
        => IF InPublicApps(getAppFromRequest(req))
           THEN /\ res.status = 200
                /\ ~Rejected(res)
                /\ res.body.user = tok.payload
           ELSE /\ Rejected(res)
                /\ "user" \notin DOMAIN res.body
                /\ res.handler = "verify-token" => res.status = 403

\* a credential issued earlier to an external email (through a public app)
\* was rejected by /check-auth for a request naming a restricted app
C8_Witness ==
    /\ res.handler = "check-auth"
    /\ req.userToken \in issued
    /\ TokenEmail(req.userToken) = ExternalEmail
    /\ now > req.userToken.payload.iat
    /\ now < req.userToken.payload.exp
    /\ getAppFromRequest(req) = Str(keys)
    /\ res.body.logged_in = FALSE
    /\ "error" \in DOMAIN res.body

\* C9 (Spec): POST /verify-token responds 200 {valid:true, user} exactly
\* when the body token verifies and the policy allows its email for the
\* current app, 403 {valid:false, error} when it verifies but the policy
\* denies, and 403 {valid:false} without an error field when the signature
\* or expiry check fails.
C9_VerifyTokenStatus ==
    res.handler = "verify-token" =>
        LET tok == req.bodyToken
            verifies == tok # Undefined /\ ~NoAuthority(tok, now)
            allowed == verifies /\ PolicyAllows(TokenEmail(tok), getAppFromRequest(req))
        IN  /\ (verifies /\ allowed) <=>
                   (/\ res.status = 200
                    /\ DOMAIN res.body = {"valid", "user"}
                    /\ res.body.valid)
            /\ (verifies /\ allowed) => res.body.user = tok.payload
            /\ (verifies /\ ~allowed) =>
                   (/\ res.status = 403
                    /\ DOMAIN res.body = {"valid", "error"}
                    /\ ~res.body.valid)
            /\ (tok # Undefined /\ ~verifies) =>
                   (/\ res.status = 403
                    /\ DOMAIN res.body = {"valid"}
                    /\ ~res.body.valid)

\* a credential signed with another key got 403 {valid:false} without an error field
C9_Witness ==
    /\ res.handler = "verify-token"
    /\ req.bodyToken = ForgedToken
    /\ res.status = 403
    /\ DOMAIN res.body = {"valid"}

\* the credential a status-reporting verifier considers: cookies first, then
\* the characters after 'Bearer '
Candidates(r) ==
    ({r.bodyToken, r.userToken}
        \cup (IF r.handler = "verifySSOTokenMiddleware" THEN {} ELSE {r.token})
        \cup (IF r.authorization # Undefined /\ r.authorization.s = Bearer
              THEN {r.authorization.cred} ELSE {}))
    \ {Undefined}

\* the app a status-reporting verifier applies the policy for
CurrentApp(r) ==
    IF r.handler = "verify-token" THEN getAppFromRequest(r) ELSE r.appName

\* the handler needs no outbound call, or the central auth server answers
UpstreamAnswers(r) ==
    \/ r.handler \in {"verify-token", "verifyToken"}
    \/ (r.ssoServerUrl /\ r.net = "up")

\* C10 (Spec): on every session-verifying handler that reports failures by
\* status code (/verify-token, verifyToken, verifySSOTokenMiddleware,
\* verifyHybridToken): no token presented -> 401, malformed / expired /
\* bad-signature credential -> 401, valid credential denied by policy -> 403
\* (on the handlers that consult the policy).
C10_StatusMapping ==
    (/\ res.handler \in {"verify-token", "verifyToken", "verifySSOTokenMiddleware",
                         "verifyHybridToken"}
     /\ UpstreamAnswers(req)) =>
        /\ Candidates(req) = {} => res.status = 401
        /\ (Candidates(req) # {} /\ \A tok \in Candidates(req) : NoAuthority(tok, now))
               => res.status = 401
        /\ (/\ res.handler # "verifyToken"
            /\ \E tok \in Candidates(req) :
                  /\ ~NoAuthority(tok, now)
                  /\ ~PolicyAllows(TokenEmail(tok), CurrentApp(req)))
               => res.status = 403

(***************************************************************************)
(* Check-auth endpoints.                                                   *)
(***************************************************************************)
\* C11 (Spec): GET /check-auth of the auth server answers every request with
\* status 200: {logged_in:true, user} exactly when the userToken cookie
\* verifies and the policy allows its email for the resolved app, and
\* logged_in:false when the cookie is absent, invalid, expired or denied by
\* the policy.
C11_CheckAuthNeverFails ==
    res.handler = "check-auth" =>
        LET tok == req.userToken
            verifies == tok # Undefined /\ ~NoAuthority(tok, now)
            allowed == verifies /\ PolicyAllows(TokenEmail(tok), getAppFromRequest(req))
        IN  /\ res.status = 200
            /\ ~res.thrown
            /\ allowed <=> (res.body.logged_in = TRUE /\ "user" \in DOMAIN res.body)
            /\ allowed => res.body.user = tok.payload
            /\ ~allowed => (res.body.logged_in = FALSE /\ "user" \notin DOMAIN res.body)

\* an issued credential was presented to /check-auth after its expiry and
\* the answer was 200 {logged_in:false}
C11_Witness ==
    /\ res.handler = "check-auth"
    /\ req.userToken \in issued
    /\ now >= req.userToken.payload.exp
    /\ res.status = 200
    /\ res.body = [logged_in |-> FALSE]

\* every credential the request carries is without authority (none carried
\* included): the visitor is logged out or the verification fails
LoggedOut(r) == \A tok \in Presented(r) : NoAuthority(tok, now)

\* C12 (Spec): the check-auth-style endpoints of the backend, GET
\* /sso/check-auth and GET /check-auth-hybrid, answer a logged-out visitor
\* or a failed verification with a successful response (status 200) that
\* carries a negative result, when the central auth server answers.
C12_NegativeResultNotError ==
    (/\ res.handler \in {"sso/check-auth", "check-auth-hybrid"}
     /\ UpstreamAnswers(req)
     /\ LoggedOut(req))
    => (res.status = 200 /\ res.body.success = FALSE)

(***************************************************************************)
(* Logout and the lifetime of a credential.                                *)
(***************************************************************************)
\* the auth server accepts the credential now, on both verifying endpoints,
\* in a request with the app signals c
Accepted(tok, c) ==
    /\ VerifyToken([Merge(Request("verify-token"), c) EXCEPT !.bodyToken = tok],
                   now).res.body.valid
    /\ CheckAuth([Merge(Request("check-auth"), c) EXCEPT !.userToken = tok],
                 now).res.body.logged_in

\* C13 (Spec): logout does not revoke.  In the state a POST /logout leaves
\* behind, every credential issued earlier that has not reached its expiry
\* is accepted by /verify-token and /check-auth when presented again, for
\* every app the policy allows its email for; so an issued credential that
\* is no longer accepted for such an app has reached its 30-day expiry (the
\* signing secret is fixed for the life of the process).
C13_LogoutDoesNotRevoke ==
    res.handler = "logout" =>
        \A tok \in issued, c \in AppContexts :
            PolicyAllows(TokenEmail(tok), getAppFromRequest(Merge(Request("none"), c)))
            => (Accepted(tok, c) <=> now < tok.payload.iat + ThirtyDays)

\* a logout was answered 200 while a credential issued earlier is unexpired
C13_Witness ==
    /\ res.handler = "logout"
    /\ res.status = 200
    /\ \E tok \in issued : tok.payload.iat < now /\ now < tok.payload.exp

(***************************************************************************)
(* Independence of concurrent requests.                                    *)
(***************************************************************************)
\* the response the auth server gives to request r handled on its own at
\* clock time `at`
HandledAlone(r, at) ==
    CASE r.handler = "auth/google" -> AuthGoogle(r, at).res
      [] r.handler = "check-auth" -> CheckAuth(r, at).res
      [] r.handler = "verify-token" -> VerifyToken(r, at).res
      [] r.handler = "logout" -> Logout(r).res

SsoReturnsValid(r) ==
    /\ UpstreamAnswers(r)
    /\ \E tok \in Candidates(r) :
          ~NoAuthority(tok, now) /\ PolicyAllows(TokenEmail(tok), r.appName)

LocalCalls == {"jwt.verify", "findById"}

\* C15 (Spec): for a request that presents a token, verifyHybridToken calls
\* verifySSOToken first; the local JWT check and the user registry come
\* after it and only when SSO did not return valid (valid:false or an HTTP
\* error answer, no answer, URL not configured), in which case the local
\* check is attempted; when SSO returns valid, nothing local is called and
\* the request passes by the SSO path.
C15_SsoFirstThenLocal ==
    (res.handler = "verifyHybridToken" /\ Candidates(req) # {}) =>
        /\ Len(res.calls) >= 1
        /\ res.calls[1] = "verifySSOToken"
        /\ \A i \in 2..Len(res.calls) : res.calls[i] \in LocalCalls
        /\ SsoReturnsValid(req) =>
               /\ res.calls = <<"verifySSOToken">>
               /\ res.next
               /\ res.attrs.authMethod = "sso"
        /\ ~SsoReturnsValid(req) =>
               /\ Len(res.calls) >= 2
               /\ res.calls[2] = "jwt.verify"

\* the central server did not answer and a legacy credential passed by the
\* local path, after the SSO attempt
C15_Witness ==
    /\ res.handler = "verifyHybridToken"
    /\ req.ssoServerUrl
    /\ req.net = "down"
    /\ res.next
    /\ res.attrs.authMethod = "local"
    /\ res.calls = <<"verifySSOToken", "jwt.verify", "findById">>

\* C16 (Spec): for a request that presents a token, verifyHybridToken ends
\* in exactly one of two outcomes: next() is called and no response is sent,
\* with authMethod 'sso' and the identity of the SSO path only, or authMethod
\* 'local' and the identity of the local path only; or next() is not called
\* and the response is a 401.  The status is never 5xx.
C16_ExactlyOneOutcome ==
    (res.handler = "verifyHybridToken" /\ Candidates(req) # {}) =>
        /\ res.status < 500
        /\ ~res.thrown
        /\ \/ /\ res.next
              /\ res.status = 0
              /\ res.body = NoBody
              /\ \/ /\ res.attrs.authMethod = "sso"
                    /\ DOMAIN res.attrs = {"ssoUser", "userId", "authMethod"}
                 \/ /\ res.attrs.authMethod = "local"
                    /\ DOMAIN res.attrs = {"user", "userId", "authMethod"}
           \/ /\ ~res.next
              /\ res.status = 401
              /\ res.attrs = NoBody

\* the central server rejected the credential, the local check rejected it
\* too, and the answer was a single 401
C16_Witness ==
    /\ res.handler = "verifyHybridToken"
    /\ UpstreamAnswers(req)
    /\ Presented(req) = {ForgedToken}
    /\ res.calls = <<"verifySSOToken", "jwt.verify">>
    /\ res.status = 401
    /\ ~res.next

\* C17 (Spec): whenever verifyHybridToken or verifySSOTokenMiddleware passes
\* a request through, the caller identity it leaves on the request is
\* complete: req.userId is defined (a non-empty id) and req.authMethod is
\* 'sso' or 'local'.
C17_IdentityComplete ==
    (res.handler \in {"verifyHybridToken", "verifySSOTokenMiddleware"} /\ res.next) =>
        /\ "userId" \in DOMAIN res.attrs
        /\ Truthy(res.attrs.userId)
        /\ "authMethod" \in DOMAIN res.attrs
        /\ res.attrs.authMethod \in {"sso", "local"}

(***************************************************************************)
(* Token extraction.                                                       *)
(***************************************************************************)
\* the candidate of the stated order: userToken cookie, else token cookie,
\* else the credentials of a Bearer header, else none
Preferred(r) ==
    IF r.userToken # Undefined THEN r.userToken
    ELSE IF r.token # Undefined THEN r.token
    ELSE IF r.authorization # Undefined /\ r.authorization.s = Bearer
    THEN r.authorization.cred
    ELSE Undefined

\* the same request carrying nothing but tok, as its userToken cookie
CarryingOnly(r, tok) ==
    [r EXCEPT !.userToken = tok, !.token = Undefined, !.authorization = Undefined]

RunMiddleware(r, at) ==
    CASE r.handler = "verifyToken" -> verifyToken(r, at)
      [] r.handler = "verifySSOTokenMiddleware" -> verifySSOTokenMiddleware(r, at)
      [] r.handler = "verifyHybridToken" -> verifyHybridToken(r, at)

\* C18 (ExtractSpec): each session-verifying middleware of the backend
\* (verifyToken, verifyHybridToken, verifySSOTokenMiddleware) acts on the
\* candidate of the order userToken cookie, token cookie, Bearer header: its
\* outcome is the outcome for a request that carries that candidate alone;
\* and when there is no candidate it answers 401 without any verification
\* call.
C18_CandidateOrder ==
    res.handler \in {"verifyToken", "verifyHybridToken", "verifySSOTokenMiddleware"} =>
        IF Preferred(req) # Undefined
        THEN res = RunMiddleware(CarryingOnly(req, Preferred(req)), now)
        ELSE res.status = 401 /\ ~res.next /\ res.calls = <<>>

(***************************************************************************)
(* The app resolver.                                                       *)
(***************************************************************************)
\* the hosts (as lists of labels) that u is a URL of: u is put together from
\* a prefix, the labels of the host and a tail
HostsOf(u) ==
    {h \in UrlHosts : \E p \in UrlPrefixes, t \in UrlTails : u = Str(p \o join(h, ".") \o t)}

\* the host has at least three labels and its last two are 'vjstartup.com'
\* (host names do not distinguish case)
UnderRoot(h) ==
    /\ Len(h) >= 3
    /\ toLowerCase(h[Len(h) - 1]) = RootLabels[1]
    /\ toLowerCase(h[Len(h)]) = RootLabels[2]

\* the app a URL names: the first label of its host under the root domain
AppOfUrl(u) ==
    IF \E h \in HostsOf(u) : UnderRoot(h)
    THEN Str(toLowerCase((CHOOSE h \in HostsOf(u) : UnderRoot(h))[1]))
    ELSE Undefined

\* an explicit app name is given: defined and not the empty string
Given(v) == v # Undefined /\ v # Str(<<>>)

\* C19 (ResolverSpec): getAppFromRequest returns the explicit app name
\* verbatim when one is given (body app, else query app, else x-app-name),
\* otherwise the app of the Origin URL when it names one, otherwise the app
\* of the Referer URL, otherwise undefined; and applying it again to the
\* same request gives the same result.
C19_ResolverPrecedence ==
    res.handler = "getAppFromRequest" =>
        /\ res.body.app =
              (IF Given(req.bodyApp) THEN req.bodyApp
               ELSE IF Given(req.queryApp) THEN req.queryApp
               ELSE IF Given(req.xAppName) THEN req.xAppName
               ELSE IF AppOfUrl(req.origin) # Undefined THEN AppOfUrl(req.origin)
               ELSE AppOfUrl(req.referer))
        /\ res.body.app = getAppFromRequest(req)

\* Origin and Referer name different apps, no explicit app is given, and
\* the result is the app of the Origin
C19_Witness ==
    /\ res.handler = "getAppFromRequest"
    /\ ~Given(req.bodyApp) /\ ~Given(req.queryApp) /\ ~Given(req.xAppName)
    /\ req.origin = OriginOf(passport)
    /\ AppOfUrl(req.referer) = Str(faculty)
    /\ res.body.app = Str(passport)

\* C20 (ResolverSpec): parseAppFromUrl returns the first label of the host
\* exactly when its input is a URL whose host has at least three labels, the
\* last two being 'vjstartup.com'; for every other input (absent, empty,
\* not a URL, the bare root domain, other domains, the root domain inside a
\* longer name) it returns undefined; it never throws.
C20_ParseAppFromUrl ==
    res.handler = "parseAppFromUrl" =>
        /\ ~res.thrown
        /\ res.body.app = AppOfUrl(req.origin)
        /\ res.body.app # Undefined <=>
               (\E h \in HostsOf(req.origin) : UnderRoot(h))

\* a URL with userinfo, a four-label host under the root domain and a port
\* gave the first label
C20_Witness ==
    /\ res.handler = "parseAppFromUrl"
    /\ req.origin = Str(HttpsScheme \o <<"u","@","a",".","b",".">> \o RootDomain
                          \o <<":","8","0","/","p","?","q","#","f">>)
    /\ res.body.app = Str(<<"a">>)

\* the two session cookies, each written once with an empty value and an
\* expiry at the epoch
ClearedPair(cookies) ==
    /\ Len(cookies) = 2
    /\ {cookies[i].name : i \in 1..2} = {"userToken", "user"}
    /\ \A i \in 1..2 : cookies[i].value = Str(<<>>) /\ cookies[i].expires = 0

\* a request presents no session credential in any place
NoCredential(r) ==
    /\ r.userToken = Undefined /\ r.token = Undefined
    /\ r.authorization = Undefined /\ r.bodyToken = Undefined

\* C21 (Spec): POST /logout needs no credential and is idempotent: every
\* call, whatever was answered before it and however often it is repeated,
\* answers 200 {success: true} with both cookies cleared (empty value, epoch
\* expiry), and the same request sent again gets the same answer, not an
\* error.
C21_LogoutIdempotent ==
    res.handler = "logout" =>
        /\ NoCredential(req)
        /\ res.status = 200
        /\ ~res.thrown
        /\ res.body = [success |-> TRUE]
        /\ ClearedPair(res.cookies)
        /\ Logout(req).res = res

\* the cookie with the given name among the cookies written
CookieNamed(cookies, name) ==
    CHOOSE c \in {cookies[i] : i \in 1..Len(cookies)} : c.name = name

\* C22 (CookieSpec): a response of the auth server that writes a session
\* cookie writes exactly the two cookies userToken and user, with the same
\* domain, path, sameSite, secure and expiry: a max-age of thirty days and no
\* expiry date when they are set, no max-age and an expiry at the epoch when
\* they are cleared; userToken is httpOnly and user is not.
C22_CookiePairTogether ==
    res.cookies # <<>> =>
        /\ Len(res.cookies) = 2
        /\ {res.cookies[i].name : i \in 1..2} = {"userToken", "user"}
        /\ LET t == CookieNamed(res.cookies, "userToken")
               u == CookieNamed(res.cookies, "user")
           IN  /\ t.domain = u.domain /\ t.path = u.path
               /\ t.sameSite = u.sameSite /\ t.secure = u.secure
               /\ t.maxAge = u.maxAge /\ t.expires = u.expires
               /\ t.httpOnly /\ ~u.httpOnly
               /\ IF res.handler = "logout"
                  THEN t.maxAge = -1 /\ t.expires = 0 /\ t.value = Str(<<>>)
                                                        /\ u.value = Str(<<>>)
                  ELSE t.maxAge = 30 * 24 * 60 * 60 /\ t.expires = -1
                                                     /\ t.value \in issued

\* a login on the production host set both cookies
C22_Witness ==
    /\ res.handler = "auth/google"
    /\ res.status = 200
    /\ req.hostname = Str(authHost)
    /\ Len(res.cookies) = 2
    /\ CookieNamed(res.cookies, "user").secure

\* a dotted quad of decimal numbers whose first number is 127
LoopbackV4(chars) ==
    LET parts == split(chars, ".")
    IN  /\ Len(parts) = 4
        /\ \A i \in 1..4 : /\ parts[i] # <<>>
                           /\ \A j \in 1..Len(parts[i]) : parts[i][j] \in Digits
        /\ parts[1] = <<"1","2","7">>

\* the hostname is the name localhost or a literal loopback address: an IPv4
\* address in 127.0.0.0/8, or the IPv6 address ::1, which a Host header
\* writes in brackets
LoopbackHostname(h) ==
    /\ IsString(h)
    /\ \/ h.s = <<"l","o","c","a","l","h","o","s","t">>
       \/ LoopbackV4(h.s)
       \/ h.s \in {<<":",":","1">>, <<"[",":",":","1","]">>}

\* C23 (CookieSpec): every cookie written has sameSite Lax and path '/'; on
\* a request whose hostname is localhost or a loopback address its domain is
\* unset and secure is false; on every other hostname its domain is
\* '.vjstartup.com' and secure is true.
C23_CookieAttributes ==
    \A i \in 1..Len(res.cookies) :
        LET c == res.cookies[i]
        IN  /\ c.sameSite = "Lax"
            /\ c.path = Str(<<"/">>)
            /\ IF LoopbackHostname(req.hostname)
               THEN c.domain = Undefined /\ ~c.secure
               ELSE /\ c.domain = Str(<<".","v","j","s","t","a","r","t","u","p",".","c","o","m">>)
                    /\ c.secure

\* the session credential an auth-server endpoint reads from the request
SessionCredential(r) ==
    IF r.handler = "check-auth" THEN r.userToken ELSE r.bodyToken

\* C24 (Spec): the cookie pair is cleared (empty value, epoch expiry) by
\* every /logout response, and by every /check-auth or /verify-token
\* response to a request whose presented session credential fails
\* verification (not a JWT, foreign signature, expired).
C24_ClearedOnFailure ==
    /\ res.handler = "logout" => ClearedPair(res.cookies)
    /\ ( /\ res.handler \in {"check-auth", "verify-token"}
         /\ SessionCredential(req) # Undefined
         /\ NoAuthority(SessionCredential(req), now) )
       => ClearedPair(res.cookies)

AuthServerHandlers == {"auth/google", "check-auth", "verify-token", "logout", "health"}

\* each of the two session cookies is written exactly once
EachCookieOnce(cookies) ==
    /\ Len(cookies) = 2
    /\ {cookies[i].name : i \in 1..2} = {"userToken", "user"}

\* C25 (Spec): on the auth server a response writes cookies only when it is
\* a 200 of /auth/google or a response of /logout, and then it writes each
\* of userToken and user exactly once; every other response (401 and 403 of
\* /auth/google, every response of /check-auth, /verify-token and /health)
\* writes none.
C25_CookieFrame ==
    res.handler \in AuthServerHandlers =>
        IF \/ res.handler = "auth/google" /\ res.status = 200
           \/ res.handler = "logout"
        THEN EachCookieOnce(res.cookies)
        ELSE res.cookies = <<>>

\* C26 (OutboundSpec): every backend request whose handler is waiting for a
\* call to the central auth server is eventually answered, even if the auth
\* server never answers and the connection never fails: the call's timeout
\* ends the wait.
C26_EventuallyAnswered ==
    \A r \in OutboundRequests : (r \in pending) ~> (r \notin pending)

\* the handler called the central auth server and the call timed out or
\* failed at network level
UpstreamCallFailed ==
    /\ req.ssoServerUrl /\ req.net = "down"
    /\ \E i \in 1..Len(res.calls) : res.calls[i] \in {"verifySSOToken", "checkSSOAuth"}

\* C27 (Spec): when the call to the central auth server times out or fails
\* at network level, verifySSOTokenMiddleware, GET /sso/check-auth and
\* verifyHybridToken answer "not authenticated" (401, success false): the
\* request is not passed on as authenticated and the status is not 500.
C27_UpstreamUnavailable ==
    ( /\ res.handler \in {"verifySSOTokenMiddleware", "sso/check-auth",
                          "verifyHybridToken"}
      /\ UpstreamCallFailed )
    => /\ ~res.next
       /\ res.status = 401
       /\ res.body.success = FALSE

\* C28 (Spec): each of the handlers /auth/google, /check-auth, /verify-token
\* and /logout answers every request itself, with one status and body, and
\* no exception escapes it: body fields may be missing, the token malformed,
\* its payload without email, the request without a Host header.
C28_NoEscapingException ==
    res.handler \in {"auth/google", "check-auth", "verify-token", "logout"} =>
        /\ ~res.thrown
        /\ res.status \in {200, 401, 403}
        /\ res.body # NoBody

\* C29 (PolicySpec): checkAccess is total: for every email and app, an
\* undefined app, an undefined or non-string email and an email without '@'
\* included, it returns a decision object (publicApp, internal, allowed,
\* reason) with boolean flags, and raises nothing.
C29_PolicyTotal ==
    access.called =>
        /\ DOMAIN access.result = {"publicApp", "internal", "allowed", "reason"}
        /\ access.result.publicApp \in BOOLEAN
        /\ access.result.internal \in BOOLEAN
        /\ access.result.allowed \in BOOLEAN

\* the policy decided on an email that is not a string and an undefined app
C29_Witness ==
    /\ access.called
    /\ access.email.t = "number"
    /\ access.app = Undefined
    /\ access.result.allowed = FALSE

\* C30 (PolicySpec): a decision carries a reason exactly when it denies: for
\* every email and app, checkAccess's reason is defined if and only if
\* allowed is false.
C30_ReasonIffDenied ==
    access.called =>
        (access.result.reason # Undefined <=> ~access.result.allowed)

\* the credential the backend middleware acts on is correctly signed,
\* unexpired and its payload has a non-empty email
VerifiedWithEmail(r) ==
    /\ Preferred(r) # Undefined
    /\ Authentic(Preferred(r), now)
    /\ TokenEmail(Preferred(r)) \notin {Undefined, Str(<<>>)}

\* C31 (DirectorySpec): for a verified token that carries an email,
\* verifyToken calls next only if the directory holds the user, and then
\* req.userId and req.userRole are those of the directory record, whatever
\* userId and role the token has; a missing user gives 401, a directory
\* error gives 500; a token with both email and userId goes the same way,
\* by the lookup by email and never by the lookup by id.
C31_EmailTokenNeedsUser ==
    (res.handler = "verifyToken" /\ VerifiedWithEmail(req)) =>
        /\ res.next <=> req.db = "found"
        /\ res.next => /\ res.attrs.userId = DbUser._id
                       /\ res.attrs.userRole = DbUser.role
        /\ req.db = "missing" => res.status = 401
        /\ req.db = "error" => res.status = 500
        /\ \A i \in 1..Len(res.calls) : res.calls[i] # "findById"

\* a token with email and a foreign userId passed with the directory's id
C31_Witness ==
    /\ res.handler = "verifyToken"
    /\ Preferred(req) = BothToken
    /\ req.db = "found"
    /\ res.next
    /\ res.attrs.userId # BothToken.payload.userId

\* what arrives in answer to the POST /verify-token of request r: the
\* response of the auth server or of a gateway; meaningful only when a
\* response arrives
ArrivingAnswer(r) ==
    IF r.net = "gateway"
    THEN [status |-> 502, body |-> [error |-> "Bad Gateway"]]
    ELSE LET a == VerifyToken([Request("verify-token")
                                  EXCEPT !.bodyToken = r.bodyToken,
                                         !.xAppName = r.appName], now).res
         IN  [status |-> a.status, body |-> a.body]

\* a response to the outbound call arrives
Answered(r) == r.ssoServerUrl /\ r.net \in {"up", "gateway"}

\* C32 (SsoCallSpec): verifySSOToken resolves with valid:true only when a
\* 2xx answer with valid:true arrived, and then with that answer's body; for
\* every answer with another status (401, 403, 5xx) it resolves with
\* {valid:false, error: the answer's body}; it throws only when no response
\* arrived or the URL is not configured, and in the latter case axios.post is
\* not reached.
C32_VerifySSOTokenOutcome ==
    res.handler = "verifySSOToken" =>
        /\ res.thrown => ~Answered(req)
        /\ ~req.ssoServerUrl => res.thrown /\ res.calls = <<>>
        /\ Answered(req) =>
              /\ ~res.thrown
              /\ IF ArrivingAnswer(req).status \in 200..299
                 THEN res.body = ArrivingAnswer(req).body
                 ELSE res.body = [valid |-> FALSE, error |-> ArrivingAnswer(req).body]
        /\ ("valid" \in DOMAIN res.body /\ res.body.valid) =>
              /\ Answered(req)
              /\ ArrivingAnswer(req).status \in 200..299
              /\ ArrivingAnswer(req).body.valid = TRUE
              /\ ~NoAuthority(req.bodyToken, now)

\* a 502 of a gateway was resolved as {valid: false, error}
C32_Witness ==
    /\ res.handler = "verifySSOToken"
    /\ req.net = "gateway"
    /\ ~res.thrown
    /\ res.body = [valid |-> FALSE, error |-> [error |-> "Bad Gateway"]]

\* the credential the backend middleware acts on is a verified legacy
\* token: correctly signed, unexpired, with a userId and no email
VerifiedLegacy(r) ==
    /\ Preferred(r) # Undefined
    /\ Authentic(Preferred(r), now)
    /\ TokenEmail(Preferred(r)) = Undefined
    /\ "userId" \in DOMAIN Preferred(r).payload

\* C33 (DirectorySpec): for a verified legacy token that reaches the local
\* path of verifyHybridToken, the hybrid middleware and verifyToken decide
\* alike: both call next when the directory finds the userId, both reject
\* when it does not.
C33_LegacySameDecision ==
    ( /\ res.handler = "verifyHybridToken"
      /\ VerifiedLegacy(req)
      /\ \E i \in 1..Len(res.calls) : res.calls[i] = "jwt.verify" )
    => /\ res.next <=> verifyToken([req EXCEPT !.handler = "verifyToken"], now).next
       /\ res.next <=> req.db = "found"

(***************************************************************************)
(* The login of the frontend store through the backend's proxy route:      *)
(* loginWithSSO posts the Google token to /sso/google, the backend         *)
(* exchanges it with the auth server, and loginWithSSO then fetches the    *)
(* user from /check-auth.  One step of the chain is looked at at a time.   *)
(***************************************************************************)
MaxInvocations == 2

\* the user object GET /check-auth of the backend returns
BackendUser == [email |-> InternalEmail, role |-> Str(faculty)]

\* what GET /check-auth of the backend (verifyToken, then the checkAuth
\* controller) answers to the store
CheckAuthAnswers ==
    { Answer(TRUE, 200, [success |-> TRUE, user |-> BackendUser]),
      Answer(TRUE, 200, [success |-> FALSE]),
      Answer(TRUE, 401, [success |-> FALSE, message |-> "Unauthorized - user not found"]),
      Answer(TRUE, 500, [success |-> FALSE]) }

\* credentialResponse.credential handed to loginWithSSO: absent, rejected by
\* Google's verification, or verified for a college or an outside account
LoginTokens ==
    {g \in GoogleTokens :
        \/ g = Undefined
        \/ g.t = "idtoken" /\ Get(g.payload, "email") \in {InternalEmail, ExternalEmail}}

NextId == Cardinality(invocations) + 1

\* invocation i moves on
Advance(i, phase, timer) ==
    invocations' = (invocations \ {i}) \cup {[i EXCEPT !.phase = phase, !.timer = timer]}

\* loginWithSSO(googleToken) up to its first await
StartLoginWithSSO ==
    /\ Idle
    /\ Cardinality(invocations) < MaxInvocations
    /\ \E g \in LoginTokens, u \in Upstreams :
          invocations' = invocations \cup
              {Invocation(NextId, "loginWithSSO", "exchanging", "none",
                          [Merge(Request("sso/google"), u) EXCEPT !.bodyToken = g])}
    /\ store' = set(store, [isLoading |-> TRUE, error |-> Null])
    /\ UNCHANGED <<PUBLIC_APPS, now, ticks, issued, req, res, access, pending>>

\* loginWithSSO of invocation i resumes with the answer a of /sso/google
LoginResumes(i, a) ==
    IF LoginExchanged(a)
    THEN Advance(i, "fetching", "none") /\ UNCHANGED store
    ELSE Advance(i, "settled", "none") /\ store' = LoginAfterExchange(store, a)

\* the backend answers POST /sso/google of invocation i with outcome o
LoginExchange(i, o) ==
    /\ Complete(i.request, o)
    /\ LoginResumes(i, Answer(TRUE, o.res.status, o.res.body))
    /\ UNCHANGED pending

LoginExchangeSettles ==
    /\ Idle
    /\ \E i \in invocations :
          /\ i.op = "loginWithSSO"
          /\ i.phase = "exchanging"
          /\ LoginExchange(i, SsoGoogle(i.request, now))

\* the GET /check-auth of loginWithSSO is answered
LoginFetchSettles ==
    /\ Idle
    /\ \E i \in invocations, a \in CheckAuthAnswers :
          /\ i.op = "loginWithSSO"
          /\ i.phase = "fetching"
          /\ Advance(i, "settled", "none")
          /\ store' = LoginAfterFetch(store, a)
    /\ UNCHANGED <<PUBLIC_APPS, now, ticks, issued, req, res, access, pending>>

\* a request of loginWithSSO gets no response
LoginRequestFails ==
    /\ Idle
    /\ \E i \in invocations :
          /\ i.op = "loginWithSSO"
          /\ i.phase \in {"exchanging", "fetching"}
          /\ Advance(i, "settled", "none")
          /\ store' = LoginFailed(store, NoAnswer, "Network Error")
    /\ UNCHANGED <<PUBLIC_APPS, now, ticks, issued, req, res, access, pending>>

ProxyNext ==
    \/ EndExchange
    \/ StartLoginWithSSO
    \/ LoginExchangeSettles
    \/ LoginFetchSettles
    \/ LoginRequestFails

ProxySpec == Init /\ [][ProxyNext]_vars

\* what the auth server answers to the exchange of POST /sso/google request r
AuthServerOutcome(r) == AuthGoogle(ExchangeRequest(r.bodyToken, r), now)

\* the exchange of r reaches the auth server
ExchangeReaches(r) ==
    r.handler = "sso/google" /\ Truthy(r.bodyToken) /\ r.ssoServerUrl /\ r.net = "up"

\* the auth server denies the verified identity of r by policy (403)
PolicyDenied(r) == ExchangeReaches(r) /\ AuthServerOutcome(r).res.status = 403

\* the status POST /sso/google answers with when Google rejects the token, the
\* rest of request r being the same
InvalidTokenStatus(r) ==
    SsoGoogle([r EXCEPT !.bodyToken = IdToken(FALSE, r.bodyToken.payload)], now).res.status

\* C34: when the auth server denies a login by policy (403 from /auth/google),
\* POST /sso/google answers with a status different from the one it answers
\* with for a Google token that fails verification, and loginWithSSO leaves
\* the college-email message in the store, not the not-registered message.
C34_DenialDistinguishable ==
    PolicyDenied(req) =>
        /\ res.status # InvalidTokenStatus(req)
        /\ store.error = Message(CollegeEmailMessage)

\* C35: POST /sso/google answers 200, 400 or 401; when the auth server grants
\* the exchange the answer is 200 and its Set-Cookie values are those of the
\* auth server, in order, nothing added or changed; a 400 (missing token)
\* makes no outbound call and sets no cookie; a 401 sets no cookie.
C35_CookiesForwarded ==
    req.handler = "sso/google" =>
        /\ res.status \in {200, 400, 401}
        /\ (ExchangeReaches(req) /\ AuthServerOutcome(req).res.status = 200)
               => res.status = 200
        /\ res.status = 200 => res.cookies = AuthServerOutcome(req).res.cookies
        /\ res.status = 400 => res.cookies = <<>> /\ res.calls = <<>>
        /\ res.status = 401 => res.cookies = <<>>

C35_Witness ==
    /\ req.handler = "sso/google"
    /\ res.status = 200
    /\ Len(res.cookies) = 2
    /\ res.cookies = AuthServerOutcome(req).res.cookies

(***************************************************************************)
(* checkAuth, logout and forceResetAuthState of the frontend store.  The   *)
(* async functions interleave at their await; a timer that is armed fires  *)
(* (weak fairness), a request may stay unanswered.                          *)
(***************************************************************************)
InvocationIds == 1..MaxInvocations

\* what GET /check-auth ends with for checkAuth
StoreAnswers == CheckAuthAnswers \cup {NoAnswer}

\* checkAuth() up to its await: the flags, then setTimeout
StartCheckAuth ==
    /\ Cardinality(invocations) < MaxInvocations
    /\ invocations' = invocations \cup
           {Invocation(NextId, "checkAuth", "pending",
                       IF SafetyTimeout("checkAuth") > 0 THEN "armed" ELSE "none",
                       NoRequest)}
    /\ store' = set(store, [isCheckingAuth |-> TRUE, error |-> Null, inProgress |-> TRUE])
    /\ UNCHANGED <<PUBLIC_APPS, now, ticks, issued, req, res, access, pending>>

\* clearTimeout(timeoutId)
clearTimeout(timer) == IF timer = "armed" THEN "cleared" ELSE timer

\* the request of a checkAuth settles: clearTimeout, then set
CheckAuthSettles ==
    /\ \E i \in invocations, a \in StoreAnswers :
          /\ i.op = "checkAuth"
          /\ i.phase = "pending"
          /\ Advance(i, "settled", clearTimeout(i.timer))
          /\ store' = CheckAuthSettled(store, a)
    /\ UNCHANGED <<PUBLIC_APPS, now, ticks, issued, req, res, access, pending>>

\* the callback of the safety timer of invocation n runs
CheckAuthTimerFires(n) ==
    /\ \E i \in invocations :
          /\ i.id = n
          /\ i.timer = "armed"
          /\ Advance(i, i.phase, "fired")
    /\ store' = set(store, [inProgress |-> FALSE, isCheckingAuth |-> FALSE])
    /\ UNCHANGED <<PUBLIC_APPS, now, ticks, issued, req, res, access, pending>>

CheckAuthTimesOut == \E n \in InvocationIds : CheckAuthTimerFires(n)

\* logout() up to its await
StartLogout ==
    /\ Cardinality(invocations) < MaxInvocations
    /\ invocations' = invocations \cup
           {Invocation(NextId, "logout", "pending", "none", NoRequest)}
    /\ store' = set(store, [isLoading |-> TRUE, error |-> Null])
    /\ UNCHANGED <<PUBLIC_APPS, now, ticks, issued, req, res, access, pending>>

\* POST /logout settles; the try and the catch block set the same state
LogoutSettles ==
    /\ \E i \in invocations :
          /\ i.op = "logout"
          /\ i.phase = "pending"
          /\ Advance(i, "settled", "none")
    /\ store' = set(SignedOut(store), [isLoading |-> FALSE])
    /\ UNCHANGED <<PUBLIC_APPS, now, ticks, issued, req, res, access, pending>>

forceResetAuthState ==
    /\ store' = set(store, [inProgress |-> FALSE, isCheckingAuth |-> FALSE])
    /\ UNCHANGED <<PUBLIC_APPS, now, ticks, issued, req, res, access, pending,
                   invocations>>

StoreNext ==
    \/ StartCheckAuth
    \/ CheckAuthSettles
    \/ CheckAuthTimesOut
    \/ StartLogout
    \/ LogoutSettles
    \/ forceResetAuthState

StoreSpec ==
    /\ Init
    /\ [][StoreNext]_vars
    /\ \A n \in InvocationIds : WF_vars(CheckAuthTimerFires(n))

\* a logout that has completed and after whose start no login and no auth
\* check was started
LastWordLogout(i) ==
    /\ i.op = "logout"
    /\ i.phase = "settled"
    /\ ~\E j \in invocations : j.id > i.id /\ j.op \in {"checkAuth", "loginWithSSO"}

\* C36: once a logout has completed, the store stays unauthenticated until a
\* login or an auth check is started after that logout; the response of a
\* checkAuth started before it does not set isAuthenticated again.
C36_LogoutWins ==
    \A i \in invocations : LastWordLogout(i) => ~store.isAuthenticated

\* invocation n of checkAuth waits for its request and its timer has not fired
CheckAuthInFlight(n) ==
    \E i \in invocations :
        i.id = n /\ i.op = "checkAuth" /\ i.phase = "pending" /\ i.timer # "fired"

\* C37: every invocation of checkAuth in flight is followed by a state with
\* isCheckingAuth = false, whether its request succeeds, fails or never
\* settles (the 5-second timer); the timer is cancelled when the request
\* settles, so it is armed, and can fire, only while the request is pending.
C37_CheckingAuthEnds ==
    /\ \A n \in InvocationIds : CheckAuthInFlight(n) ~> ~store.isCheckingAuth
    /\ [](\A i \in invocations : i.timer = "armed" => i.phase = "pending")

C37_Witness ==
    /\ ~store.isCheckingAuth
    /\ \E i \in invocations :
          i.op = "checkAuth" /\ i.phase = "pending" /\ i.timer = "fired"
    /\ \E i \in invocations :
          i.op = "checkAuth" /\ i.phase = "settled" /\ i.timer = "cleared"

====
